---- MODULE Spec2Model ----
(***************************************************************************)
(* Frame-deduplication filter and bounded batch-analysis pipeline of the   *)
(* capture application: the continuous capture driver, the analysis queue  *)
(* with its single worker, the grid analysis endpoint with its daily       *)
(* record store, the per-frame analysis endpoint and the check-image       *)
(* endpoint.                                                               *)
(*                                                                         *)
(* JavaScript runs each handler to its next await without interleaving, so *)
(* one action is the code between two awaits.  Scores are fixed-point      *)
(* integers, ScoreUnit units to 1.0; CO2 masses are integers in 1/100 kg.  *)
(***************************************************************************)
EXTENDS Integers, Sequences, FiniteSets, TLC

\* ------------------------------------------------------------ constants
MAX_FRAMES == 12
MAX_PENDING_JOBS == 3
HISTORY_KEEP == 5
SIMILARITY_THRESHOLD == 20
HASH_BITS == 64
\* significand bits of a Number
MANTISSA_BITS == 53
\* wide naturals: five limbs of 14 bits; division in base 2^6 to 10 digits
LIMBS == 5
LIMB_BITS == 14
DIV_BASE == 64
DIV_DIGITS == 10
DIV_SHIFT == 60
\* 12.85 kg, the reference daily average, in 1/100 kg
REFERENCE_CO2 == 1285

\* ------------------------------------------------------------ bounds
\* jobs accepted by the queue over a behaviour: under arbitrary callers, in a
\* capture session, and while the scores are observed
MaxJobs == 4
MaxCaptureJobs == 3
MaxFairJobs == 2
MaxScoreJobs == 3
\* calendar days (UTC dates) the record store sees
MaxDay == 2
\* requests served by the per-frame analysis endpoint
MaxFrameBatches == 2
\* analysis requests of the effect-driven component awaiting their response
MaxInFlight == 2
\* frame checks of a direct caller between two resets
MaxChecks == 3
\* requests of the capture sessions that share the check-image endpoint
MaxSharedOps == 4
\* batches submitted while the job history is observed: more than HISTORY_KEEP
MaxHistoryJobs == 6
\* batches submitted while the pruning of the job list is observed: enough for a
\* job to be dropped while another is active
MaxPruneJobs == 7
\* steps of 0.0006425 kg in the totalCO2Kg values handed to the score formulas
MaxCO2Steps == 60
\* offsets of the coefficient patterns handed to the threshold step of computeHash
MaxDctShift == 3
\* Analyze-batch requests posted to the grid endpoint by its clients, and those of
\* them served at the same time
MaxPosts == 3
MaxConcurrentPosts == 2
\* frames handed to the grid composer
MaxGridFrames == 12

\* fixed-point units per 1.0 of score
ScoreUnit == 100 * 100

\* totalCO2Kg values the analyzer may report, in 1/100 kg
CO2Values == {85, 250}

NoHash == <<>>

\* the continuous capture component (client), the servers, and three history
\* variables kept for observation only
VARIABLES analysisQueueRef,   \* GridJob[]: sequence of job records
    processingRef,      \* boolean worker flag
    jobIdCounterRef,    \* last job id handed out
    completedGrids,     \* UI counter of analyzed grids
    worker,             \* activations of processAnalysisQueue past their first await
    sessionActiveRef,   \* guard of runCaptureSession
    stopRequestedRef,   \* stop flag
    driver,             \* the sampling loop: its await position and locals
    lastHash,           \* check-image endpoint: fingerprint of the last accepted frame
    carbonLogs,         \* grid endpoint: the carbonLogs collection
    today,              \* the current UTC date
    endpoint,           \* which analysis endpoint serves /api/analyze-grid
    cumulativeScore,    \* per-frame endpoint: running total
    batchHistory,       \* per-frame endpoint: the batch history
    retired,            \* <<id, status>> of jobs in the order the worker retired them
    okDeltas,           \* <<job, delta, date>> of the grid batches stored since the last reset
    lastEnqueue,        \* outcome of the latest queueGridForAnalysis call
    component,          \* which CaptureSession component is mounted
    capturing,          \* bounded components: the capturing state the buttons render from
    capturingRef,       \* effect-driven bounded component: the loop flag
    statusText,         \* effect-driven bounded component: the kind of status text shown
    analyses,           \* effect-driven bounded component: analyzeGrid calls in flight
    sent,               \* frame counts of the analysis requests sent since the last start
    received,           \* check-image responses a direct caller got since the last reset
    call                \* the library call under observation: its arguments and its result

vars == <<analysisQueueRef, processingRef, jobIdCounterRef, completedGrids, worker,
          sessionActiveRef, stopRequestedRef, driver, lastHash, carbonLogs, today,
          endpoint, cumulativeScore, batchHistory, retired, okDeltas, lastEnqueue,
          component, capturing, capturingRef, statusText, analyses, sent, received, call>>

clientQueueVars == <<analysisQueueRef, processingRef, jobIdCounterRef, completedGrids,
                     worker, retired, lastEnqueue>>
driverVars == <<sessionActiveRef, stopRequestedRef, driver>>
gridServerVars == <<carbonLogs, okDeltas, endpoint>>
frameServerVars == <<cumulativeScore, batchHistory>>
boundedVars == <<component, capturing, capturingRef, statusText, analyses, sent>>

\* ------------------------------------------------------------ arithmetic
RECURSIVE SumSeq(_)
SumSeq(s) == IF s = <<>> THEN 0 ELSE Head(s) + SumSeq(Tail(s))

\* Math.round(n / d) for d > 0: the nearest integer, halves towards +infinity
MathRound(n, d) == (2 * n + d) \div (2 * d)

\* Math.round(x * 100) / 100 on a fixed-point score x
Round2(x) == MathRound(x * 100, ScoreUnit) * (ScoreUnit \div 100)

\* Math.round((totalCO2Kg / 12.85) * 10000) / 100
ScoreChangeOf(co2) == MathRound(co2 * 10000, REFERENCE_CO2) * (ScoreUnit \div 100)

\* ------------------------------------------------------------ Number arithmetic
\* A Number is an IEEE 754 double: [m |-> its 53 significand bits, most significant
\* first and leading bit 1, e |-> the exponent of the last bit], or DoubleZero.
\* A natural wider than a machine word is a sequence of bits, most significant
\* first, or for arithmetic a tuple of LIMBS limbs of LIMB_BITS bits, least
\* significant first.
DoubleZero == [m |-> <<>>, e |-> 0]

Zeros(n) == [i \in 1..n |-> 0]

\* b without its leading zeros
Trim(b) ==
    IF \A i \in 1..Len(b) : b[i] = 0 THEN <<>>
    ELSE SubSeq(b, CHOOSE i \in 1..Len(b) : b[i] = 1 /\ \A j \in 1..(i - 1) : b[j] = 0, Len(b))

RECURSIVE BitsOf(_)
BitsOf(n) == IF n = 0 THEN <<>> ELSE Append(BitsOf(n \div 2), n % 2)

\* the natural of the bits i..j of b
RECURSIVE NatFrom(_, _, _)
NatFrom(b, i, j) == IF j < i THEN 0 ELSE 2 * NatFrom(b, i, j - 1) + b[j]

\* limb k of the bits b
LimbOfBits(b, k) ==
    LET last == Len(b) - LIMB_BITS * (k - 1)
        first == IF last - LIMB_BITS + 1 < 1 THEN 1 ELSE last - LIMB_BITS + 1
    IN  NatFrom(b, first, last)

LimbsOfBits(b) ==
    <<LimbOfBits(b, 1), LimbOfBits(b, 2), LimbOfBits(b, 3), LimbOfBits(b, 4), LimbOfBits(b, 5)>>

BitsOfLimbs(l) ==
    Trim([i \in 1..(LIMBS * LIMB_BITS) |->
            LET p == LIMBS * LIMB_BITS - i
            IN  (l[p \div LIMB_BITS + 1] \div 2 ^ (p % LIMB_BITS)) % 2])

\* a <= b on limbs
LimbsLeq(a, b) ==
    \/ a = b
    \/ \E k \in 1..LIMBS : a[k] < b[k] /\ \A h \in (k + 1)..LIMBS : a[h] = b[h]

\* the limbs k.. of l * c + carry, for a small natural c
RECURSIVE TimesFrom(_, _, _, _)
TimesFrom(l, c, k, carry) ==
    IF k > LIMBS THEN <<>>
    ELSE LET t == l[k] * c + carry
         IN  <<t % 2 ^ LIMB_BITS>> \o TimesFrom(l, c, k + 1, t \div 2 ^ LIMB_BITS)

LimbsTimes(l, c, carry) == TimesFrom(l, c, 1, carry)

\* the limbs k.. of a - b, for a >= b
RECURSIVE SubFrom(_, _, _, _)
SubFrom(a, b, k, borrow) ==
    IF k > LIMBS THEN <<>>
    ELSE LET t == a[k] - b[k] - borrow
         IN  IF t < 0
             THEN <<t + 2 ^ LIMB_BITS>> \o SubFrom(a, b, k + 1, 1)
             ELSE <<t>> \o SubFrom(a, b, k + 1, 0)

LimbsSub(a, b) == SubFrom(a, b, 1, 0)

\* b + 1 on bits
BitsInc(b) ==
    IF \A i \in 1..Len(b) : b[i] = 1 THEN <<1>> \o Zeros(Len(b))
    ELSE LET z == CHOOSE i \in 1..Len(b) : b[i] = 0 /\ \A j \in (i + 1)..Len(b) : b[j] = 1
         IN  [i \in 1..Len(b) |-> IF i < z THEN b[i] ELSE IF i = z THEN 1 ELSE 0]

\* the largest digit t with t * d <= r
DivDigit(r, d) ==
    CHOOSE t \in 0..(DIV_BASE - 1) :
        /\ LimbsLeq(LimbsTimes(d, t, 0), r)
        /\ t < DIV_BASE - 1 => ~LimbsLeq(LimbsTimes(d, t + 1, 0), r)

\* schoolbook division by d in base DIV_BASE: n more quotient digits after the
\* quotient and the remainder of st
RECURSIVE LongDivision(_, _, _)
LongDivision(d, n, st) ==
    IF n = 0 THEN st
    ELSE LET r1 == LimbsTimes(st.remainder, DIV_BASE, 0)
             t == DivDigit(r1, d)
         IN  LongDivision(d, n - 1, [quotient |-> LimbsTimes(st.quotient, DIV_BASE, t),
                                     remainder |-> LimbsSub(r1, LimbsTimes(d, t, 0))])

\* the double nearest to n * 2^e (plus a fraction of its last bit when inexact),
\* ties to the even significand
RoundToDouble(n, inexact, e) ==
    IF n = <<>> THEN DoubleZero
    ELSE IF Len(n) <= MANTISSA_BITS
    THEN [m |-> n \o Zeros(MANTISSA_BITS - Len(n)), e |-> e - (MANTISSA_BITS - Len(n))]
    ELSE LET k == Len(n) - MANTISSA_BITS
             kept == SubSeq(n, 1, MANTISSA_BITS)
             rest == inexact \/ \E i \in (MANTISSA_BITS + 2)..Len(n) : n[i] = 1
             up == n[MANTISSA_BITS + 1] = 1 /\ (rest \/ kept[MANTISSA_BITS] = 1)
             m1 == IF up THEN BitsInc(kept) ELSE kept
         IN  IF Len(m1) > MANTISSA_BITS
             THEN [m |-> SubSeq(m1, 1, MANTISSA_BITS), e |-> e + k + 1]
             ELSE [m |-> m1, e |-> e + k]

\* the Number of a natural below 2^31
DoubleOf(n) == RoundToDouble(BitsOf(n), FALSE, 0)

\* x / y on Numbers, y not zero: the quotient of the significands to
\* 1 + DIV_DIGITS digits, rounded
DoubleDiv(x, y) ==
    IF x = DoubleZero THEN DoubleZero
    ELSE LET n == LimbsOfBits(x.m)
             d == LimbsOfBits(y.m)
             t == DivDigit(n, d)
             res == LongDivision(d, DIV_DIGITS,
                                 [quotient |-> LimbsOfBits(BitsOf(t)),
                                  remainder |-> LimbsSub(n, LimbsTimes(d, t, 0))])
         IN  RoundToDouble(BitsOfLimbs(res.quotient), res.remainder # Zeros(LIMBS),
                           x.e - DIV_SHIFT - y.e)

\* x * c on Numbers, c a small natural
DoubleTimes(x, c) ==
    IF x = DoubleZero THEN DoubleZero
    ELSE RoundToDouble(BitsOfLimbs(LimbsTimes(LimbsOfBits(x.m), c, 0)), FALSE, x.e)

\* Math.round(x) for 0 <= x < 2^31: the nearest integer, halves towards +infinity
DoubleRound(x) ==
    IF x = DoubleZero \/ -x.e > MANTISSA_BITS THEN 0
    ELSE IF x.e >= 0 THEN NatFrom(x.m \o Zeros(x.e), 1, MANTISSA_BITS + x.e)
    ELSE NatFrom(x.m, 1, MANTISSA_BITS + x.e) + x.m[MANTISSA_BITS + x.e + 1]

\* the literal of a decimal fraction n / 10^k: the double nearest to it
DecimalLiteral(n, k) == DoubleDiv(DoubleOf(n), DoubleOf(10 ^ k))

\* the literal 12.85
REFERENCE_DAILY_KG == DecimalLiteral(1285, 2)

\* analyzeGrid: Math.round((totalCO2Kg / 12.85) * 10000) / 100, as a fixed-point score
analyzeGridScoreChange(totalCO2Kg) ==
    DoubleRound(DoubleTimes(DoubleDiv(totalCO2Kg, REFERENCE_DAILY_KG), 10000))
        * (ScoreUnit \div 100)

\* analyzeFrames: scoreChange = (totalCO2Kg / 12.85) * 100, then
\* Math.round(scoreChange * 100) / 100, as a fixed-point score
analyzeFramesScoreChange(totalCO2Kg) ==
    DoubleRound(DoubleTimes(DoubleTimes(DoubleDiv(totalCO2Kg, REFERENCE_DAILY_KG), 100), 100))
        * (ScoreUnit \div 100)

\* totalCO2Kg values the analyzer may report, as numerators over 10^7: the
\* multiples of 0.0006425 kg (every second one is an exact multiple of a
\* hundredth of a score point, the others lie halfway between two), and the
\* values of CO2Values
CO2_DECIMALS == 7

CO2Numerators ==
    {6425 * j : j \in 0..MaxCO2Steps} \cup {c * 10 ^ (CO2_DECIMALS - 2) : c \in CO2Values}

\* ------------------------------------------------------------ the job list
IsActive(j) == j.status = "pending" \/ j.status = "analyzing"
IsFinished(j) == j.status = "complete" \/ j.status = "failed"

\* analysisQueueRef.current.filter(pending || analyzing).length
PendingCount(q) == Len(SelectSeq(q, IsActive))

\* finishedJobs.slice(-5)
LastN(s, n) == IF Len(s) <= n THEN s ELSE SubSeq(s, Len(s) - n + 1, Len(s))

\* [...activeJobs, ...finishedJobs.slice(-5)]
PruneHistoryKeepsAll(q) == q

PruneHistoryAnalyzingOnly(q) ==
    SelectSeq(q, LAMBDA j : j.status = "analyzing")
        \o LastN(SelectSeq(q, IsFinished), HISTORY_KEEP)

PruneHistory(q) == SelectSeq(q, IsActive) \o LastN(SelectSeq(q, IsFinished), HISTORY_KEEP)

\* analysisQueueRef.current.find(j => j.status === "pending"): its index, 0 if none
FindPendingFromEnd(q) ==
    IF \E i \in 1..Len(q) : q[i].status = "pending"
    THEN CHOOSE i \in 1..Len(q) :
            q[i].status = "pending" /\ \A k \in (i + 1)..Len(q) : q[k].status # "pending"
    ELSE 0

FindPending(q) ==
    IF \E i \in 1..Len(q) : q[i].status = "pending"
    THEN CHOOSE i \in 1..Len(q) :
            q[i].status = "pending" /\ \A k \in 1..(i - 1) : q[k].status # "pending"
    ELSE 0

\* a write through the worker's reference to its job object
UpdateJob(q, id, status, result, error) ==
    [i \in 1..Len(q) |->
        IF q[i].id = id
        THEN [q[i] EXCEPT !.status = status, !.result = result, !.error = error]
        ELSE q[i]]

NewJob(id, frames) ==
    [id |-> id, frames |-> frames, status |-> "pending", result |-> <<>>, error |-> ""]

\* ------------------------------------------------------------ the worker
\* processAnalysisQueue up to its first await: the re-entrancy guard, the choice of
\* the oldest pending job and its move to "analyzing"
WorkerBusyNever(p) == FALSE

WorkerBusy(p) == p

Activation(id) ==
    [job |-> id, pc |-> "grid", analyzer |-> "", scoreChange |-> 0,
     cumulativeScore |-> 0, date |-> 0, error |-> ""]

NoAnalyzingMark(q, id) == q

MarkAnalyzing(q, id) == UpdateJob(q, id, "analyzing", <<>>, "")

ProcessAnalysisQueue(q, p, w) ==
    IF WorkerBusy(p) THEN [q |-> q, p |-> p, w |-> w]
    ELSE LET i == FindPending(q) IN
         IF i = 0 THEN [q |-> q, p |-> p, w |-> w]
         ELSE [q |-> MarkAnalyzing(q, q[i].id), p |-> TRUE,
               w |-> w \cup {Activation(q[i].id)}]

\* queueGridForAnalysis: admission control, the push and the call of the worker
AlwaysRoom(q) == FALSE

QueueFullOffByOne(q) == PendingCount(q) > MAX_PENDING_JOBS

QueueFull(q) == PendingCount(q) >= MAX_PENDING_JOBS

\* the counter incremented before the capacity check
QueueGridCountsRefused(q, p, w, ctr, frames) ==
    IF QueueFull(q)
    THEN [accepted |-> FALSE, q |-> q, p |-> p, w |-> w, ctr |-> ctr + 1]
    ELSE LET d == ProcessAnalysisQueue(Append(q, NewJob(ctr + 1, frames)), p, w)
         IN  [accepted |-> TRUE, q |-> d.q, p |-> d.p, w |-> d.w, ctr |-> ctr + 1]

QueueGridForAnalysis(q, p, w, ctr, frames) ==
    IF QueueFull(q)
    THEN [accepted |-> FALSE, q |-> q, p |-> p, w |-> w, ctr |-> ctr]
    ELSE LET d == ProcessAnalysisQueue(Append(q, NewJob(ctr + 1, frames)), p, w)
         IN  [accepted |-> TRUE, q |-> d.q, p |-> d.p, w |-> d.w, ctr |-> ctr + 1]

\* the 12 frames of a batch, in acceptance order
FullBatch == [i \in 1..MAX_FRAMES |-> i]

\* the recursive call that ends processAnalysisQueue, the flag being cleared
NoNextAfterRetire(q, w) == [q |-> q, p |-> FALSE, w |-> w]

NextAfterRetire(q, w) == ProcessAnalysisQueue(q, FALSE, w)

\* the end of processAnalysisQueue: the terminal status, the flag cleared, the
\* history pruned and the next job started
Retire(a, status, result, error) ==
    LET q1 == UpdateJob(analysisQueueRef, a.job, status, result, error)
        d  == NextAfterRetire(PruneHistory(q1), worker \ {a})
    IN  /\ analysisQueueRef' = d.q
        /\ processingRef' = d.p
        /\ worker' = d.w
        /\ completedGrids' = IF status = "complete" THEN completedGrids + 1
                             ELSE completedGrids
        /\ retired' = Append(retired, <<a.job, status>>)
        /\ UNCHANGED <<jobIdCounterRef, lastEnqueue>>

\* createGridDataUrl returned: a data URL, or null (no grid canvas, no 2d context)
CreateGridDone(a, ok) ==
    /\ a \in worker /\ a.pc = "grid"
    /\ IF ok
       THEN /\ worker' = (worker \ {a}) \cup {[a EXCEPT !.pc = "analyze"]}
            /\ UNCHANGED <<analysisQueueRef, processingRef, jobIdCounterRef,
                           completedGrids, retired, lastEnqueue>>
       ELSE Retire(a, "failed", <<>>, "Failed to create grid")
    /\ UNCHANGED <<driverVars, lastHash, gridServerVars, today, frameServerVars, boundedVars, received, call>>

\* grid endpoint, analyzeGrid returned and getDb resolved: outcome "reject" (no key,
\* malformed data URL, the model call or the database connection fails), "unparsed"
\* (JSON.parse failed: the zero result is substituted) or a totalCO2Kg
AnalyzerOutcomes ==
    {<<"reject", 0>>, <<"unparsed", 0>>} \cup {<<"ok", c>> : c \in CO2Values}

\* the outcomes drawn while the scores are observed
ScoreOutcomes == {<<"reject", 0>>} \cup {<<"ok", c>> : c \in CO2Values}

\* the outcomes drawn in a capture session
CaptureOutcomes == {<<"reject", 0>>, <<"ok", 250>>}

\* the substituted result of a parse failure has totalCO2Kg 0
ParsedCO2(out) == IF out[1] = "unparsed" THEN 0 ELSE out[2]

GridAnalyzed(a, out) ==
    /\ a \in worker /\ a.pc = "analyze"
    /\ worker' = (worker \ {a}) \cup
          {IF out[1] = "reject"
           THEN [a EXCEPT !.pc = "reply", !.analyzer = out[1],
                          !.error = "Analysis failed"]
           ELSE [a EXCEPT !.pc = "find", !.analyzer = out[1],
                          !.scoreChange = ScoreChangeOf(ParsedCO2(out)),
                          !.date = today]}
    /\ UNCHANGED <<analysisQueueRef, processingRef, jobIdCounterRef, completedGrids,
                   retired, lastEnqueue, driverVars, lastHash, gridServerVars, today,
                   frameServerVars, boundedVars, received, call>>

\* todayLogs.reduce((sum, log) => sum + (log.scoreChange || 0), 0)
LogsOf(logs, date) == SelectSeq(logs, LAMBDA r : r.date = date)

ScoreChanges(logs) == [i \in 1..Len(logs) |-> logs[i].scoreChange]

PreviousTotal(logs, date) == SumSeq(ScoreChanges(LogsOf(logs, date)))

\* Math.round((previousTotal + result.scoreChange) * 100) / 100
CumulativeAfter(prev, delta) == Round2(prev + delta)

\* grid endpoint, collection.find returned (or failed)
GridFound(a, ok) ==
    /\ a \in worker /\ a.pc = "find"
    /\ worker' = (worker \ {a}) \cup
          {IF ok
           THEN [a EXCEPT !.pc = "insert",
                          !.cumulativeScore =
                              CumulativeAfter(PreviousTotal(carbonLogs, a.date),
                                              a.scoreChange)]
           ELSE [a EXCEPT !.pc = "reply", !.error = "Analysis failed"]}
    /\ UNCHANGED <<analysisQueueRef, processingRef, jobIdCounterRef, completedGrids,
                   retired, lastEnqueue, driverVars, lastHash, gridServerVars, today,
                   frameServerVars, boundedVars, received, call>>

LogRecordWithoutScore(a) == [scoreChange |-> 0, date |-> a.date]

LogRecord(a) == [scoreChange |-> a.scoreChange, date |-> a.date]

\* the response after the insert: { success: true, cumulativeScore }
InsertReplyLost(a) == [a EXCEPT !.pc = "reply", !.error = "Analysis failed"]

InsertReply(a) == [a EXCEPT !.pc = "reply"]

\* grid endpoint, collection.insertOne returned (or failed)
GridInserted(a, ok) ==
    /\ a \in worker /\ a.pc = "insert"
    /\ IF ok
       THEN /\ carbonLogs' = Append(carbonLogs, LogRecord(a))
            /\ okDeltas' = Append(okDeltas, <<a.job, a.scoreChange, a.date>>)
            /\ worker' = (worker \ {a}) \cup {InsertReply(a)}
            /\ UNCHANGED endpoint
       ELSE /\ worker' = (worker \ {a}) \cup
                  {[a EXCEPT !.pc = "reply", !.error = "Analysis failed"]}
            /\ UNCHANGED gridServerVars
    /\ UNCHANGED <<analysisQueueRef, processingRef, jobIdCounterRef, completedGrids,
                   retired, lastEnqueue, driverVars, lastHash, today, frameServerVars, boundedVars, received, call>>

\* res.ok in runAnalysis
ResponseAlwaysOk(a) == TRUE

ResponseOk(a) == a.error = ""

\* runAnalysis returned in the worker: res.ok gives the result, otherwise it throws
AnalysisReplied(a) ==
    /\ a \in worker /\ a.pc = "reply"
    /\ IF ResponseOk(a)
       THEN Retire(a, "complete", <<a.cumulativeScore>>, "")
       ELSE Retire(a, "failed", <<>>, a.error)
    /\ UNCHANGED <<driverVars, lastHash, gridServerVars, today, frameServerVars, boundedVars, received, call>>

\* ------------------------------------------------------------ grid endpoint, rest
\* GET: the rounded sum of today's scoreChange values and the number of records
GridScore == Round2(PreviousTotal(carbonLogs, today))

GridTotalBatchesAllDates == Len(carbonLogs)

GridTotalBatches == Len(LogsOf(carbonLogs, today))

\* DELETE: collection.deleteMany({ date: today })
GridReset ==
    /\ endpoint = "grid"
    /\ carbonLogs' = SelectSeq(carbonLogs, LAMBDA r : r.date # today)
    /\ okDeltas' = <<>>
    /\ UNCHANGED <<endpoint, clientQueueVars, driverVars, lastHash, today, frameServerVars, boundedVars, received, call>>

\* midnight UTC: getTodayDate() returns the next date from now on
DayTick ==
    /\ endpoint = "grid"
    /\ today < MaxDay
    /\ today' = today + 1
    /\ UNCHANGED <<clientQueueVars, driverVars, lastHash, gridServerVars, frameServerVars, boundedVars, received, call>>

\* POST of a client other than the capture component's worker: the request is
\* accepted (a grid image is present) and analyzeGrid is called; requests are
\* numbered in the order they arrive
PostsArrived == Len(received) + Cardinality(worker)

GridPostArrives ==
    /\ endpoint = "grid"
    /\ PostsArrived < MaxPosts
    /\ Cardinality(worker) < MaxConcurrentPosts
    /\ worker' = worker \cup {[Activation(PostsArrived + 1) EXCEPT !.pc = "analyze"]}
    /\ UNCHANGED <<analysisQueueRef, processingRef, jobIdCounterRef, completedGrids,
                   retired, lastEnqueue, driverVars, lastHash, gridServerVars, today,
                   frameServerVars, boundedVars, received, call>>

\* the response of that POST: { success: true, cumulativeScore }, or status 500
GridPostResponse(a) ==
    IF ResponseOk(a) THEN <<a.job, <<"ok", a.cumulativeScore>>>>
    ELSE <<a.job, <<"error", 500>>>>

GridPostReplied(a) ==
    /\ a \in worker /\ a.pc = "reply"
    /\ worker' = worker \ {a}
    /\ received' = Append(received, GridPostResponse(a))
    /\ UNCHANGED <<analysisQueueRef, processingRef, jobIdCounterRef, completedGrids,
                   retired, lastEnqueue, driverVars, lastHash, gridServerVars, today,
                   frameServerVars, boundedVars, call>>

\* ------------------------------------------------------------ per-frame endpoint
\* analyzeFrames: scoreChange = (totalCO2Kg / 12.85) * 100, rounded to two decimals
FrameScoreChangeOf(co2) == MathRound(co2 * 100 * 100, REFERENCE_CO2) * (ScoreUnit \div 100)

\* cumulativeScore += result.scoreChange
RunningTotal(total, delta) == total + delta

\* POST, analyzeFrames returned: a thrown analyzer error answers 500 and changes
\* nothing; otherwise the running total and the history are updated
FramePostEffect(out) ==
    IF out[1] = "reject"
    THEN UNCHANGED frameServerVars
    ELSE /\ Len(batchHistory) < MaxFrameBatches
         /\ LET delta == FrameScoreChangeOf(ParsedCO2(out))
                total == RunningTotal(cumulativeScore, delta)
            IN  /\ cumulativeScore' = total
                /\ batchHistory' = Append(batchHistory,
                       [batchNumber |-> Len(batchHistory) + 1,
                        scoreChange |-> delta,
                        cumulativeScore |-> Round2(total)])

FramePost(out) ==
    /\ endpoint = "frames"
    /\ FramePostEffect(out)
    /\ UNCHANGED <<clientQueueVars, driverVars, lastHash, gridServerVars, today,
                   boundedVars, received, call>>

\* GET
FrameScore == Round2(cumulativeScore)

FrameTotalBatches == Len(batchHistory)

\* DELETE
FrameReset ==
    /\ endpoint = "frames"
    /\ cumulativeScore' = 0
    /\ batchHistory' = <<>>
    /\ UNCHANGED <<clientQueueVars, driverVars, lastHash, gridServerVars, today,
                   boundedVars, received, call>>

\* ------------------------------------------------------------ check-image endpoint
\* a fingerprint with its first k bits set
BitsPrefix(k) == [i \in 1..HASH_BITS |-> IF i <= k THEN 1 ELSE 0]

\* computeHash after the DCT: dct[u][v] is the sum computed for (u, v), an integer
\* here. dctValues lists the sums in the order of the loops, u outside and v inside
DCT_SIZE == 8

DctValues(dct) ==
    [i \in 1..(DCT_SIZE * DCT_SIZE) |-> dct[(i - 1) \div DCT_SIZE][(i - 1) % DCT_SIZE]]

\* twice the median of a sorted list: the middle element of an odd number of
\* values, the mean of the two middle ones otherwise
MedianTwice(sorted) ==
    LET mid == Len(sorted) \div 2
    IN  IF Len(sorted) % 2 # 0
        THEN 2 * sorted[mid + 1]
        ELSE sorted[mid] + sorted[mid + 1]

\* the threshold of computeHash with the DC coefficient left in
MedianWithDC(dctValues) == MedianTwice(SortSeq(dctValues, LAMBDA x, y : x < y))

\* dctValues.slice(1), sorted ascending, and its median (twice)
MedianWithoutDC(dctValues) ==
    MedianTwice(SortSeq(Tail(dctValues), LAMBDA x, y : x < y))

\* dctValues.map(val >= median ? "1" : "0")
computeHash(dct) ==
    LET dctValues == DctValues(dct)
        median2 == MedianWithoutDC(dctValues)
    IN  [i \in 1..Len(dctValues) |-> IF 2 * dctValues[i] >= median2 THEN 1 ELSE 0]

\* coefficient matrices handed to the threshold step: the DC coefficient dc, the
\* others a * i + b modulo m, centred on zero (all equal for m = 1)
DctInputs ==
    {[u \in 0..(DCT_SIZE - 1) |-> [v \in 0..(DCT_SIZE - 1) |->
          IF u = 0 /\ v = 0 THEN dc
          ELSE ((a * (DCT_SIZE * u + v) + b) % m) - (m \div 2)]] :
       a \in {1, 3, 5, 7}, b \in 0..MaxDctShift, m \in {1, 2, 5, 64}, dc \in {-100, 1000}}

\* fingerprints of the frames the source delivers: distances 20, 19 and 39 occur
Hashes == {BitsPrefix(0), BitsPrefix(20), BitsPrefix(39)}

RECURSIVE CountDiffering(_, _, _)
CountDiffering(h1, h2, i) ==
    IF i > Len(h1) THEN 0
    ELSE (IF h1[i] # h2[i] THEN 1 ELSE 0) + CountDiffering(h1, h2, i + 1)

\* hammingDistance, called with fingerprints of equal length
hammingDistance(h1, h2) == CountDiffering(h1, h2, 1)

\* a call of hammingDistance without the length comparison: the positions both
\* strings have are compared
hammingDistanceUnchecked(h1, h2) ==
    <<"ok", Cardinality({i \in 1..Len(h1) : i <= Len(h2) /\ h1[i] # h2[i]})>>

\* a call of hammingDistance as its caller sees it: strings of unequal length
\* throw Error("Hashes must be the same length"), otherwise the count is returned
hammingDistanceCall(h1, h2) ==
    IF Len(h1) # Len(h2)
    THEN <<"error", "Hashes must be the same length">>
    ELSE <<"ok", hammingDistance(h1, h2)>>

\* a string of n characters, the odd positions "1" and the even ones "0"
BitsAlternating(n) == [i \in 1..n |-> i % 2]

\* strings handed to hammingDistance: fingerprints of 64 characters that differ
\* in 0 to 64 places, and strings of 0, 63 and 65 characters
HammingInputs ==
    {BitsPrefix(0), BitsPrefix(1), BitsPrefix(20), BitsPrefix(63), BitsPrefix(64),
     BitsAlternating(HASH_BITS), BitsAlternating(0), BitsAlternating(HASH_BITS - 1),
     BitsAlternating(HASH_BITS + 1)}

\* POST of the check-image endpoint: the response and the new reference
CheckImageStrict(ref, h) ==
    IF ref = NoHash
    THEN [shouldProcess |-> TRUE, distance |-> <<>>, lastHash |-> h]
    ELSE LET d == hammingDistance(ref, h)
         IN  IF d > SIMILARITY_THRESHOLD
             THEN [shouldProcess |-> TRUE, distance |-> <<d>>, lastHash |-> h]
             ELSE [shouldProcess |-> FALSE, distance |-> <<d>>, lastHash |-> ref]

CheckImageNoAnchor(ref, h) ==
    IF ref = NoHash
    THEN [shouldProcess |-> TRUE, distance |-> <<>>, lastHash |-> ref]
    ELSE LET d == hammingDistance(ref, h)
         IN  IF d >= SIMILARITY_THRESHOLD
             THEN [shouldProcess |-> TRUE, distance |-> <<d>>, lastHash |-> h]
             ELSE [shouldProcess |-> FALSE, distance |-> <<d>>, lastHash |-> ref]

CheckImageDrift(ref, h) ==
    IF ref = NoHash
    THEN [shouldProcess |-> TRUE, distance |-> <<>>, lastHash |-> h]
    ELSE LET d == hammingDistance(ref, h)
         IN  IF d >= SIMILARITY_THRESHOLD
             THEN [shouldProcess |-> TRUE, distance |-> <<d>>, lastHash |-> h]
             ELSE [shouldProcess |-> FALSE, distance |-> <<d>>, lastHash |-> h]

CheckImage(ref, h) ==
    IF ref = NoHash
    THEN [shouldProcess |-> TRUE, distance |-> <<>>, lastHash |-> h]
    ELSE LET d == hammingDistance(ref, h)
         IN  IF d >= SIMILARITY_THRESHOLD
             THEN [shouldProcess |-> TRUE, distance |-> <<d>>, lastHash |-> h]
             ELSE [shouldProcess |-> FALSE, distance |-> <<d>>, lastHash |-> ref]

\* a POST as its caller sees it: out is the frame's fingerprint, or <<>> when no
\* image was supplied or computeHash threw; the 400 and 500 responses carry an
\* error and no shouldProcess, which the drivers read as not to be processed
CheckImageResponseCounted(ref, out) ==
    IF out = <<>>
    THEN [ok |-> FALSE, shouldProcess |-> TRUE, distance |-> <<>>, lastHash |-> ref]
    ELSE LET r == CheckImage(ref, out)
         IN  [ok |-> TRUE, shouldProcess |-> r.shouldProcess, distance |-> r.distance,
              lastHash |-> r.lastHash]

CheckImageResponse(ref, out) ==
    IF out = <<>>
    THEN [ok |-> FALSE, shouldProcess |-> FALSE, distance |-> <<>>, lastHash |-> ref]
    ELSE LET r == CheckImage(ref, out)
         IN  [ok |-> TRUE, shouldProcess |-> r.shouldProcess, distance |-> r.distance,
              lastHash |-> r.lastHash]

\* DELETE of the check-image endpoint: the reference is cleared
CheckImageDeleteKept(ref) == ref

CheckImageDeleteToggles(ref) == IF ref = NoHash THEN BitsPrefix(0) ELSE NoHash

CheckImageDelete(ref) == NoHash

\* fingerprints a direct caller presents: distances 15, 19, 20 and 25 from the
\* first occur, and smaller ones between the others
FilterHashes ==
    {BitsPrefix(0), BitsPrefix(15), BitsPrefix(19), BitsPrefix(20), BitsPrefix(25)}

\* a POST under a direct caller, answered: out is the frame's fingerprint, or <<>>
\* when no image was provided or computeHash threw (400 or 500, nothing changes)
CheckImagePost(out) ==
    /\ Len(received) < MaxChecks
    /\ LET res == CheckImageResponse(lastHash, out)
       IN  /\ lastHash' = res.lastHash
           /\ received' = Append(received,
                              [ok |-> res.ok, hash |-> out,
                               shouldProcess |-> res.shouldProcess,
                               distance |-> res.distance])
    /\ UNCHANGED <<clientQueueVars, driverVars, gridServerVars, today, frameServerVars,
                   boundedVars, call>>

\* a DELETE under a direct caller
CheckImageReset ==
    /\ lastHash' = CheckImageDelete(lastHash)
    /\ received' = <<>>
    /\ UNCHANGED <<clientQueueVars, driverVars, gridServerVars, today, frameServerVars,
                   boundedVars, call>>

\* the capture sessions (browser tabs, clients) served by the one module instance
\* of the endpoint
Sessions == {1, 2}

\* a POST of session s, answered; lastHash is the module-level variable whoever
\* the caller is
SessionCheck(s, out) ==
    /\ Len(received) < MaxSharedOps
    /\ LET res == CheckImageResponse(lastHash, out)
       IN  /\ lastHash' = res.lastHash
           /\ received' = Append(received,
                              [session |-> s, kind |-> "check", ok |-> res.ok,
                               hash |-> out, shouldProcess |-> res.shouldProcess,
                               distance |-> res.distance])
    /\ UNCHANGED <<clientQueueVars, driverVars, gridServerVars, today, frameServerVars,
                   boundedVars, call>>

\* a DELETE of session s
SessionReset(s) ==
    /\ Len(received) < MaxSharedOps
    /\ lastHash' = CheckImageDelete(lastHash)
    /\ received' = Append(received,
                          [session |-> s, kind |-> "reset", ok |-> TRUE, hash |-> <<>>,
                           shouldProcess |-> FALSE, distance |-> <<>>])
    /\ UNCHANGED <<clientQueueVars, driverVars, gridServerVars, today, frameServerVars,
                   boundedVars, call>>

\* ------------------------------------------------------------ the capture driver
IdleDriver == [pc |-> "idle", accepted |-> 0, collectedFrames |-> <<>>, delay |-> 0]

FlipCall(e, accepted, by) ==
    [toggle |-> 1 - e.toggle, accepted |-> accepted, by |-> by]

\* the end of runCaptureSession: the guard is cleared
SessionEndFlush ==
    LET r == QueueGridForAnalysis(analysisQueueRef, processingRef, worker,
                                  jobIdCounterRef, driver.collectedFrames)
    IN  /\ driver' = IdleDriver
        /\ sessionActiveRef' = FALSE
        /\ analysisQueueRef' = r.q
        /\ processingRef' = r.p
        /\ worker' = r.w
        /\ jobIdCounterRef' = r.ctr
        /\ lastEnqueue' = FlipCall(lastEnqueue, r.accepted, "driver")

SessionEnd ==
    /\ driver' = IdleDriver
    /\ sessionActiveRef' = FALSE
    /\ UNCHANGED <<analysisQueueRef, processingRef, worker, jobIdCounterRef, lastEnqueue>>

Sleep(acc, frames, ms) ==
    /\ driver' = [pc |-> "sleep", accepted |-> acc, collectedFrames |-> frames,
                  delay |-> ms]
    /\ UNCHANGED <<sessionActiveRef, analysisQueueRef, processingRef, worker,
                   jobIdCounterRef, lastEnqueue>>

\* the driver's own capacity check before it samples the first frame of a batch
NoBackpressure(q, acc) == FALSE

BackpressureAboveCapacity(q, acc) == PendingCount(q) > MAX_PENDING_JOBS /\ acc = 0

Backpressure(q, acc) == PendingCount(q) >= MAX_PENDING_JOBS /\ acc = 0

\* one pass of the inner loop body up to its await: the capacity check, then
\* captureOneFrame (null while the video is not ready) and the frame check sent
InnerBody(acc, frames) ==
    IF Backpressure(analysisQueueRef, acc)
    THEN Sleep(acc, frames, 5000)
    ELSE \E ready \in BOOLEAN :
            /\ ready => (jobIdCounterRef < MaxCaptureJobs \/ QueueFull(analysisQueueRef))
            /\ IF ready
               THEN /\ driver' = [pc |-> "check", accepted |-> acc,
                                  collectedFrames |-> frames, delay |-> 0]
                    /\ UNCHANGED <<sessionActiveRef, analysisQueueRef, processingRef,
                                   worker, jobIdCounterRef, lastEnqueue>>
               ELSE Sleep(acc, frames, 200)

\* after the inner loop, with every batch discarded on stop
AfterInnerDropsOnStop(acc, frames) ==
    IF stopRequestedRef
    THEN SessionEnd
    ELSE IF Len(frames) = MAX_FRAMES
         THEN LET r == QueueGridForAnalysis(analysisQueueRef, processingRef, worker,
                                            jobIdCounterRef, frames)
              IN  /\ analysisQueueRef' = r.q
                  /\ processingRef' = r.p
                  /\ worker' = r.w
                  /\ jobIdCounterRef' = r.ctr
                  /\ lastEnqueue' = FlipCall(lastEnqueue, r.accepted, "driver")
                  /\ driver' = [pc |-> "gridreset", accepted |-> acc,
                                collectedFrames |-> frames, delay |-> 0]
                  /\ UNCHANGED sessionActiveRef
         ELSE InnerBody(0, <<>>)

\* after the inner loop: a partial batch is discarded on stop, a full one is queued
AfterInner(acc, frames) ==
    IF stopRequestedRef /\ Len(frames) < MAX_FRAMES
    THEN SessionEnd
    ELSE IF Len(frames) = MAX_FRAMES
         THEN LET r == QueueGridForAnalysis(analysisQueueRef, processingRef, worker,
                                            jobIdCounterRef, frames)
              IN  /\ analysisQueueRef' = r.q
                  /\ processingRef' = r.p
                  /\ worker' = r.w
                  /\ jobIdCounterRef' = r.ctr
                  /\ lastEnqueue' = FlipCall(lastEnqueue, r.accepted, "driver")
                  /\ driver' = [pc |-> "gridreset", accepted |-> acc,
                                collectedFrames |-> frames, delay |-> 0]
                  /\ UNCHANGED sessionActiveRef
         ELSE IF stopRequestedRef THEN SessionEnd ELSE InnerBody(0, <<>>)

\* the inner while condition
InnerLoopOneMore(acc, frames) ==
    IF stopRequestedRef \/ acc >= MAX_FRAMES + 1
    THEN AfterInner(acc, frames)
    ELSE InnerBody(acc, frames)

InnerLoopIgnoresStop(acc, frames) ==
    IF acc >= MAX_FRAMES
    THEN AfterInner(acc, frames)
    ELSE InnerBody(acc, frames)

InnerLoop(acc, frames) ==
    IF stopRequestedRef \/ acc >= MAX_FRAMES
    THEN AfterInner(acc, frames)
    ELSE InnerBody(acc, frames)

\* the outer while condition and the start of a new grid
OuterLoopUntilFailure ==
    IF stopRequestedRef \/ \E i \in 1..Len(analysisQueueRef) :
                               analysisQueueRef[i].status = "failed"
    THEN SessionEnd
    ELSE InnerLoop(0, <<>>)

OuterLoop == IF stopRequestedRef THEN SessionEnd ELSE InnerLoop(0, <<>>)

\* the guard of runCaptureSession against a second session
NoSessionGuard(active) == FALSE

SessionGuard(active) == active

\* handleStartCapture: a no-op while a session is active
HandleStartCapture ==
    /\ IF SessionGuard(sessionActiveRef)
       THEN UNCHANGED <<sessionActiveRef, stopRequestedRef, driver, completedGrids>>
       ELSE /\ sessionActiveRef' = TRUE
            /\ stopRequestedRef' = FALSE
            /\ completedGrids' = 0
            /\ driver' = [pc |-> "reset", accepted |-> 0, collectedFrames |-> <<>>,
                          delay |-> 0]
    /\ UNCHANGED <<analysisQueueRef, processingRef, jobIdCounterRef, worker, retired,
                   lastEnqueue, lastHash, gridServerVars, today, frameServerVars, boundedVars, received, call>>

HandleStopCapture ==
    /\ stopRequestedRef' = TRUE
    /\ UNCHANGED <<clientQueueVars, sessionActiveRef, driver, lastHash, gridServerVars,
                   today, frameServerVars, boundedVars, received, call>>

\* the DELETE of the check-image endpoint returned, at run start or after a queued
\* grid; a rejected fetch ends runCaptureSession by an exception
HashResetDone(ok) ==
    /\ driver.pc \in {"reset", "gridreset"}
    /\ IF ok
       THEN /\ lastHash' = CheckImageDelete(lastHash)
            /\ OuterLoop
       ELSE /\ driver' = [driver EXCEPT !.pc = "crashed"]
            /\ UNCHANGED <<lastHash, sessionActiveRef, analysisQueueRef, processingRef,
                           worker, jobIdCounterRef, lastEnqueue>>
    /\ UNCHANGED <<stopRequestedRef, completedGrids, retired, gridServerVars, today,
                   frameServerVars, boundedVars, received, call>>

\* collectedFrames.push(capturedFrame)
CollectedFramesUnshift(frames, f) == <<f>> \o frames

CollectedFramesPush(frames, f) == Append(frames, f)

\* the frame check returned: out is the frame's fingerprint, or <<>> when the request
\* failed (the error response carries no shouldProcess, a rejected fetch is caught)
FrameChecked(out) ==
    /\ driver.pc = "check"
    /\ LET res == CheckImageResponse(lastHash, out)
       IN  /\ lastHash' = res.lastHash
           /\ driver' = IF res.shouldProcess
                        THEN [pc |-> "sleep", accepted |-> driver.accepted + 1,
                              collectedFrames |->
                                  CollectedFramesPush(driver.collectedFrames, driver.accepted + 1),
                              delay |-> 1000]
                        ELSE [driver EXCEPT !.pc = "sleep", !.delay = 1000]
    /\ UNCHANGED <<clientQueueVars, sessionActiveRef, stopRequestedRef, gridServerVars,
                   today, frameServerVars, boundedVars, received, call>>

\* the timer of the loop fired: delay is 1000 ms after a check, 200 ms without a
\* frame, 5000 ms on a full queue
DriverWake ==
    /\ driver.pc = "sleep"
    /\ InnerLoop(driver.accepted, driver.collectedFrames)
    /\ UNCHANGED <<stopRequestedRef, completedGrids, retired, lastHash, gridServerVars,
                   today, frameServerVars, boundedVars, received, call>>

\* ------------------------------------------------------------ the bounded driver
\* the bounded CaptureSession component: one run collects frames until MAX_FRAMES are
\* accepted, TIMEOUT_SECONDS have elapsed or a stop is requested, then sends them
BoundedSleep(acc, frames, ms) ==
    /\ driver' = [pc |-> "sleep", accepted |-> acc, collectedFrames |-> frames,
                  delay |-> ms]
    /\ UNCHANGED <<sessionActiveRef, capturing, sent>>

\* after the loop: an empty run ends here, any other is sent whole to runAnalysis
RunAlwaysSends(frames) == TRUE

RunHasFrames(frames) == Len(frames) > 0

BoundedFinish(frames) ==
    /\ capturing' = FALSE
    /\ IF RunHasFrames(frames)
       THEN /\ driver' = [pc |-> "analysis", accepted |-> Len(frames),
                          collectedFrames |-> frames, delay |-> 0]
            /\ sent' = Append(sent, Len(frames))
            /\ UNCHANGED sessionActiveRef
       ELSE /\ driver' = IdleDriver
            /\ sessionActiveRef' = FALSE
            /\ UNCHANGED sent

\* the loop without its timeout check
BoundedLoopNoTimeout(acc, frames, timedOut) ==
    IF stopRequestedRef \/ acc >= MAX_FRAMES
    THEN BoundedFinish(frames)
    ELSE \E ready \in BOOLEAN :
            IF ready
            THEN /\ driver' = [pc |-> "check", accepted |-> acc,
                               collectedFrames |-> frames, delay |-> 0]
                 /\ UNCHANGED <<sessionActiveRef, capturing, sent>>
            ELSE BoundedSleep(acc, frames, 200)

\* the while condition, the timeout check and the loop body up to its await
BoundedLoop(acc, frames, timedOut) ==
    IF stopRequestedRef \/ acc >= MAX_FRAMES \/ timedOut
    THEN BoundedFinish(frames)
    ELSE \E ready \in BOOLEAN :
            IF ready
            THEN /\ driver' = [pc |-> "check", accepted |-> acc,
                               collectedFrames |-> frames, delay |-> 0]
                 /\ UNCHANGED <<sessionActiveRef, capturing, sent>>
            ELSE BoundedSleep(acc, frames, 200)

\* handleStartCapture: the Start button is rendered while capturing is false
BoundedStart ==
    /\ component = "bounded"
    /\ ~capturing
    /\ IF SessionGuard(sessionActiveRef)
       THEN UNCHANGED <<sessionActiveRef, stopRequestedRef, driver, capturing, sent>>
       ELSE /\ sessionActiveRef' = TRUE
            /\ stopRequestedRef' = FALSE
            /\ capturing' = TRUE
            /\ driver' = [pc |-> "reset", accepted |-> 0, collectedFrames |-> <<>>,
                          delay |-> 0]
            /\ sent' = <<>>
    /\ UNCHANGED <<clientQueueVars, lastHash, gridServerVars, today, frameServerVars,
                   component, capturingRef, statusText, analyses, received, call>>

\* handleStopCapture: the Stop button is rendered while capturing is true
BoundedStop ==
    /\ component = "bounded"
    /\ capturing
    /\ stopRequestedRef' = TRUE
    /\ UNCHANGED <<clientQueueVars, sessionActiveRef, driver, lastHash, gridServerVars,
                   today, frameServerVars, boundedVars, received, call>>

\* the DELETE of the check-image endpoint returned; a rejected fetch ends
\* runCaptureSession by an exception
BoundedResetDone(ok) ==
    /\ component = "bounded"
    /\ driver.pc = "reset"
    /\ IF ok
       THEN /\ lastHash' = CheckImageDelete(lastHash)
            /\ BoundedLoop(0, <<>>, FALSE)
       ELSE /\ driver' = [driver EXCEPT !.pc = "crashed"]
            /\ UNCHANGED <<lastHash, sessionActiveRef, capturing, sent>>
    /\ UNCHANGED <<clientQueueVars, stopRequestedRef, gridServerVars, today,
                   frameServerVars, component, capturingRef, statusText, analyses,
                   received, call>>

BoundedChecked(out) ==
    /\ component = "bounded"
    /\ driver.pc = "check"
    /\ LET res == CheckImageResponse(lastHash, out)
       IN  /\ lastHash' = res.lastHash
           /\ driver' = IF res.shouldProcess
                        THEN [pc |-> "sleep", accepted |-> driver.accepted + 1,
                              collectedFrames |->
                                  Append(driver.collectedFrames, driver.accepted + 1),
                              delay |-> 1000]
                        ELSE [driver EXCEPT !.pc = "sleep", !.delay = 1000]
    /\ UNCHANGED <<clientQueueVars, sessionActiveRef, stopRequestedRef, gridServerVars,
                   today, frameServerVars, boundedVars, received, call>>

\* the timer of the loop fired; TIMEOUT_SECONDS may have elapsed by now
BoundedWake(timedOut) ==
    /\ component = "bounded"
    /\ driver.pc = "sleep"
    /\ BoundedLoop(driver.accepted, driver.collectedFrames, timedOut)
    /\ UNCHANGED <<clientQueueVars, stopRequestedRef, lastHash, gridServerVars, today,
                   frameServerVars, component, capturingRef, statusText, analyses,
                   received, call>>

\* the analysis request was served by the per-frame endpoint and runAnalysis
\* returned or threw: the run is over
BoundedAnalysisDone(out) ==
    /\ component = "bounded"
    /\ driver.pc = "analysis"
    /\ FramePostEffect(out)
    /\ driver' = IdleDriver
    /\ sessionActiveRef' = FALSE
    /\ UNCHANGED <<clientQueueVars, stopRequestedRef, lastHash, gridServerVars, today,
                   boundedVars, received, call>>

\* ------------------------------------------------------------ the effect-driven driver
\* the bounded CaptureSession component whose analysis is started by an effect on
\* [capturing, statusText]; driver.collectedFrames is its frames state, which
\* survives the end of the loop
\* statusText.startsWith of the check mark or of the stopwatch: "Batch complete!",
\* "Analysis complete" and "Capture ended" texts
StatusTriggers(text) == text \in {"batch complete", "analysis complete", "capture ended"}

\* the effect after a render with the given capturing, frames and status text, and
\* analyzeGrid as far as its fetch: the status text shown and whether a request left
AutoAnalysis(isCapturing, frames, text) ==
    IF ~isCapturing /\ Len(frames) > 0 /\ StatusTriggers(text)
    THEN [statusText |-> "analyzing", sends |-> TRUE]
    ELSE [statusText |-> text, sends |-> FALSE]

EffectSleep(acc, frames, ms) ==
    /\ driver' = [pc |-> "sleep", accepted |-> acc, collectedFrames |-> frames,
                  delay |-> ms]
    /\ statusText' = "capturing"
    /\ UNCHANGED <<capturing, capturingRef, analyses, sent>>

\* after the loop: the flag and the state are cleared, the end text is set and the
\* effect runs
EffectFinish(acc, frames) ==
    LET e == AutoAnalysis(FALSE, frames,
                          IF acc >= MAX_FRAMES THEN "batch complete" ELSE "capture ended")
    IN  /\ capturingRef' = FALSE
        /\ capturing' = FALSE
        /\ driver' = [pc |-> "idle", accepted |-> acc, collectedFrames |-> frames,
                      delay |-> 0]
        /\ statusText' = e.statusText
        /\ analyses' = IF e.sends THEN analyses + 1 ELSE analyses
        /\ sent' = IF e.sends THEN Append(sent, Len(frames)) ELSE sent

EffectLoop(acc, frames, timedOut) ==
    IF ~capturingRef \/ acc >= MAX_FRAMES \/ timedOut
    THEN EffectFinish(acc, frames)
    ELSE \E ready \in BOOLEAN :
            IF ready
            THEN /\ driver' = [pc |-> "check", accepted |-> acc,
                               collectedFrames |-> frames, delay |-> 0]
                 /\ statusText' = "capturing"
                 /\ UNCHANGED <<capturing, capturingRef, analyses, sent>>
            ELSE EffectSleep(acc, frames, 200)

\* handleStartCapture, reachable through the Start button while capturing is false
EffectStart ==
    /\ component = "effect"
    /\ ~capturing
    /\ analyses < MaxInFlight
    /\ capturing' = TRUE
    /\ capturingRef' = TRUE
    /\ driver' = [pc |-> "reset", accepted |-> 0, collectedFrames |-> <<>>, delay |-> 0]
    /\ sent' = <<>>
    /\ UNCHANGED <<clientQueueVars, sessionActiveRef, stopRequestedRef, lastHash,
                   gridServerVars, today, frameServerVars, component, statusText,
                   analyses, received, call>>

\* handleStopCapture, reachable through the Stop button while capturing is true
EffectStop ==
    /\ component = "effect"
    /\ capturing
    /\ capturingRef' = FALSE
    /\ UNCHANGED <<clientQueueVars, driverVars, lastHash, gridServerVars, today,
                   frameServerVars, component, capturing, statusText, analyses, sent,
                   received, call>>

\* the DELETE of the check-image endpoint returned; a rejected fetch ends
\* startCaptureLoop by an exception
EffectResetDone(ok) ==
    /\ component = "effect"
    /\ driver.pc = "reset"
    /\ IF ok
       THEN /\ lastHash' = CheckImageDelete(lastHash)
            /\ EffectLoop(0, <<>>, FALSE)
       ELSE /\ driver' = [driver EXCEPT !.pc = "crashed"]
            /\ UNCHANGED <<lastHash, capturing, capturingRef, statusText, analyses, sent>>
    /\ UNCHANGED <<clientQueueVars, sessionActiveRef, stopRequestedRef, gridServerVars,
                   today, frameServerVars, component, received, call>>

EffectChecked(out) ==
    /\ component = "effect"
    /\ driver.pc = "check"
    /\ LET res == CheckImageResponse(lastHash, out)
       IN  /\ lastHash' = res.lastHash
           /\ driver' = IF res.shouldProcess
                        THEN [pc |-> "sleep", accepted |-> driver.accepted + 1,
                              collectedFrames |->
                                  Append(driver.collectedFrames, driver.accepted + 1),
                              delay |-> 1000]
                        ELSE [driver EXCEPT !.pc = "sleep", !.delay = 1000]
    /\ UNCHANGED <<clientQueueVars, sessionActiveRef, stopRequestedRef, gridServerVars,
                   today, frameServerVars, boundedVars, received, call>>

EffectWake(timedOut) ==
    /\ component = "effect"
    /\ driver.pc = "sleep"
    /\ EffectLoop(driver.accepted, driver.collectedFrames, timedOut)
    /\ UNCHANGED <<clientQueueVars, sessionActiveRef, stopRequestedRef, lastHash,
                   gridServerVars, today, frameServerVars, component, received, call>>

\* an analysis request was served by the per-frame endpoint and analyzeGrid went on:
\* the result text or the failure text is set and the effect runs
EffectAnalysisDone(out) ==
    /\ component = "effect"
    /\ analyses > 0
    /\ FramePostEffect(out)
    /\ LET e == AutoAnalysis(capturing, driver.collectedFrames,
                             IF out[1] = "reject" THEN "analysis failed"
                             ELSE "analysis complete")
       IN  /\ statusText' = e.statusText
           /\ analyses' = IF e.sends THEN analyses ELSE analyses - 1
           /\ sent' = IF e.sends THEN Append(sent, Len(driver.collectedFrames)) ELSE sent
    /\ UNCHANGED <<clientQueueVars, driverVars, lastHash, gridServerVars, today,
                   component, capturing, capturingRef, received, call>>

\* ------------------------------------------------------------ callers of the queue
\* queueGridForAnalysis called with a full batch, while fewer than n were accepted
EnqueueUpTo(n) ==
    /\ endpoint = "grid"
    /\ QueueFull(analysisQueueRef) \/ jobIdCounterRef < n
    /\ LET r == QueueGridForAnalysis(analysisQueueRef, processingRef, worker,
                                     jobIdCounterRef, FullBatch)
       IN  /\ analysisQueueRef' = r.q
           /\ processingRef' = r.p
           /\ worker' = r.w
           /\ jobIdCounterRef' = r.ctr
           /\ lastEnqueue' = FlipCall(lastEnqueue, r.accepted, "caller")
    /\ UNCHANGED <<completedGrids, retired, driverVars, lastHash, gridServerVars, today,
                   frameServerVars, boundedVars, received, call>>

EnqueueCall == EnqueueUpTo(MaxJobs)

\* processAnalysisQueue called
DrainCall ==
    /\ LET d == ProcessAnalysisQueue(analysisQueueRef, processingRef, worker)
       IN  /\ analysisQueueRef' = d.q
           /\ processingRef' = d.p
           /\ worker' = d.w
    /\ UNCHANGED <<jobIdCounterRef, completedGrids, retired, lastEnqueue, driverVars,
                   lastHash, gridServerVars, today, frameServerVars, boundedVars, received, call>>

\* ------------------------------------------------------------ the grid composer
GRID_COLS == 4
GRID_ROWS == 3

\* width and height of the video at the moment a frame is captured
FrameSizes == {<<640, 480>>, <<1280, 720>>, <<3, 2>>, <<1, 1>>}

\* getTimestamp() at the acceptance of the k-th frame: "HH:MM:SS"
Timestamp(k) == "10:00:" \o (IF k < 10 THEN "0" ELSE "") \o ToString(k)

\* the frames of a batch: the first of one size, the others of another
CapturedFrames(n, first, others) ==
    [k \in 1..n |-> [width |-> IF k = 1 THEN first[1] ELSE others[1],
                      height |-> IF k = 1 THEN first[2] ELSE others[2],
                      timestamp |-> Timestamp(k)]]

\* `${i + 1} ${framesToDraw[i].timestamp}`
GridLabel(i, framesToDraw) == ToString(i + 1) \o " " \o framesToDraw[i + 1].timestamp

\* the body of loadedImages.forEach for image i: the image is drawn scaled to the
\* cell, the label on top of it
GridCellColumnMajor(i, cellW, cellH, framesToDraw) ==
    [x |-> (i \div GRID_ROWS) * cellW, y |-> (i % GRID_ROWS) * cellH,
     width |-> cellW, height |-> cellH,
     image |-> i + 1, label |-> GridLabel(i, framesToDraw)]

GridCell(i, cellW, cellH, framesToDraw) ==
    [x |-> (i % GRID_COLS) * cellW, y |-> (i \div GRID_COLS) * cellH,
     width |-> cellW, height |-> cellH,
     image |-> i + 1, label |-> GridLabel(i, framesToDraw)]

\* createGridDataUrl: null without a grid canvas, without frames or without a 2d
\* context; otherwise the canvas size and what was drawn on it, in drawing order
createGridDataUrl(gridCanvas, ctx, framesToDraw) ==
    IF ~gridCanvas \/ Len(framesToDraw) = 0 THEN <<"null">>
    ELSE LET cellW == framesToDraw[1].width
             cellH == framesToDraw[1].height
         IN  IF ~ctx THEN <<"null">>
             ELSE <<"grid", [width |-> cellW * GRID_COLS,
                             height |-> cellH * GRID_ROWS,
                             cells |-> [k \in 1..Len(framesToDraw) |->
                                          GridCell(k - 1, cellW, cellH, framesToDraw)]]>>

\* ------------------------------------------------------------ specifications
InitState(endpoints, components) ==
    /\ analysisQueueRef = <<>>
    /\ processingRef = FALSE
    /\ jobIdCounterRef = 0
    /\ completedGrids = 0
    /\ worker = {}
    /\ sessionActiveRef = FALSE
    /\ stopRequestedRef = FALSE
    /\ driver = IdleDriver
    /\ lastHash = NoHash
    /\ carbonLogs = <<>>
    /\ today = 1
    /\ endpoint \in endpoints
    /\ cumulativeScore = 0
    /\ batchHistory = <<>>
    /\ retired = <<>>
    /\ okDeltas = <<>>
    /\ lastEnqueue = [toggle |-> 0, accepted |-> TRUE, by |-> "none"]
    /\ component \in components
    /\ capturing = FALSE
    /\ capturingRef = FALSE
    /\ statusText = "ready"
    /\ analyses = 0
    /\ sent = <<>>
    /\ received = <<>>

\* no library call is under observation
NoCall == [fn |-> "none", args |-> <<>>, result |-> <<>>]

InitOf(endpoints, components) ==
    /\ InitState(endpoints, components)
    /\ call = NoCall

InitBut(endpoints) == InitOf(endpoints, {"continuous"})

Init == InitBut({"grid"})

WorkerStepOn(outcomes) ==
    \E a \in worker :
        \/ \E ok \in BOOLEAN : CreateGridDone(a, ok)
        \/ \E out \in outcomes : GridAnalyzed(a, out)
        \/ \E ok \in BOOLEAN : GridFound(a, ok)
        \/ \E ok \in BOOLEAN : GridInserted(a, ok)
        \/ AnalysisReplied(a)

\* the queue and its worker under arbitrary callers, with both analysis endpoints
NextQueue ==
    \/ EnqueueCall
    \/ DrainCall
    \/ WorkerStepOn(AnalyzerOutcomes)

SpecQueue == Init /\ [][NextQueue]_vars

\* the continuous capture component as deployed: the driver is the only caller
NextCapture ==
    \/ HandleStartCapture
    \/ HandleStopCapture
    \/ \E ok \in BOOLEAN : HashResetDone(ok)
    \/ \E out \in Hashes \cup {<<>>} : FrameChecked(out)
    \/ DriverWake
    \/ WorkerStepOn(CaptureOutcomes)

Next == NextCapture

Spec == Init /\ [][Next]_vars

\* the scores of both analysis endpoints under arbitrary callers: which of the two
\* serves /api/analyze-grid is fixed at the start
InitScore == InitBut({"grid", "frames"})

NextScore ==
    \/ EnqueueUpTo(MaxScoreJobs)
    \/ WorkerStepOn(ScoreOutcomes)
    \/ GridReset
    \/ DayTick
    \/ \E out \in ScoreOutcomes : FramePost(out)
    \/ FrameReset

SpecScore == InitScore /\ [][NextScore]_vars

\* the capture component with every pending await of the worker eventually
\* resolving (grid composition, the analysis request and its response), where the
\* video delivers no further frame once MaxFairJobs batches were submitted
NextFair == Next /\ (jobIdCounterRef >= MaxFairJobs => driver'.pc # "check")

SpecFair == Init /\ [][NextFair]_vars /\ WF_vars(WorkerStepOn(CaptureOutcomes))

\* the capture component where the worker's awaits and the driver's timers
\* eventually resolve, before a video that has a frame ready at every sample and
\* whose frames all pass the filter, until MaxCaptureJobs batches were submitted;
\* there is one capture run
NextPoll ==
    /\ Next
    /\ stopRequestedRef => driver'.pc # "reset"
    /\ driver.pc = "check" => driver'.accepted = driver.accepted + 1
    /\ (driver'.pc = "sleep" /\ driver'.delay = 200) =>
            jobIdCounterRef >= MaxCaptureJobs

SpecPoll ==
    /\ Init
    /\ [][NextPoll]_vars
    /\ WF_vars(WorkerStepOn(CaptureOutcomes))
    /\ WF_vars(DriverWake)

\* the pending await of the driver resolves: its timer, its frame check or its
\* reset request
DriverStep ==
    \/ DriverWake
    \/ \E out \in Hashes \cup {<<>>} : FrameChecked(out)
    \/ \E ok \in BOOLEAN : HashResetDone(ok)

\* the same capture component where every await of the driver eventually resolves,
\* whatever the worker does
SpecStop == Init /\ [][NextPoll]_vars /\ WF_vars(DriverStep)

\* the bounded components against the per-frame endpoint: which of the two
\* components is mounted is fixed at the start
InitBounded == InitOf({"frames"}, {"bounded", "effect"})

NextBounded ==
    \/ BoundedStart
    \/ BoundedStop
    \/ \E ok \in BOOLEAN : BoundedResetDone(ok)
    \/ \E out \in Hashes \cup {<<>>} : BoundedChecked(out)
    \/ \E timedOut \in BOOLEAN : BoundedWake(timedOut)
    \/ \E out \in CaptureOutcomes : BoundedAnalysisDone(out)
    \/ EffectStart
    \/ EffectStop
    \/ \E ok \in BOOLEAN : EffectResetDone(ok)
    \/ \E out \in Hashes \cup {<<>>} : EffectChecked(out)
    \/ \E timedOut \in BOOLEAN : EffectWake(timedOut)
    \/ \E out \in CaptureOutcomes : EffectAnalysisDone(out)

SpecBounded == InitBounded /\ [][NextBounded]_vars

\* the pending await of a bounded sampling loop resolves: its frame check or its
\* timer
LoopAwaitResolves ==
    \/ \E out \in Hashes \cup {<<>>} : BoundedChecked(out)
    \/ \E timedOut \in BOOLEAN : BoundedWake(timedOut)
    \/ \E out \in Hashes \cup {<<>>} : EffectChecked(out)
    \/ \E timedOut \in BOOLEAN : EffectWake(timedOut)

\* the loop test is reached with TIMEOUT_SECONDS elapsed since startTime
TimeoutObserved == BoundedWake(TRUE) \/ EffectWake(TRUE)

\* the bounded components where every await of the loop resolves and, each pass
\* of the loop taking at least 200 ms, a loop that keeps running reaches its test
\* with the timeout elapsed
SpecTimeout ==
    /\ InitBounded
    /\ [][NextBounded]_vars
    /\ WF_vars(LoopAwaitResolves)
    /\ SF_vars(TimeoutObserved)

\* every capture component: the continuous one with its queue and worker, and the
\* bounded ones
InitDrivers == Init \/ InitBounded

NextDrivers ==
    \/ component = "continuous" /\ NextCapture
    \/ NextBounded

SpecDrivers == InitDrivers /\ [][NextDrivers]_vars

\* the queue and its worker under a caller that submits full batches, long enough
\* for the history to be pruned
NextHistory ==
    \/ EnqueueUpTo(MaxHistoryJobs)
    \/ WorkerStepOn(CaptureOutcomes)

SpecHistory == Init /\ [][NextHistory]_vars

\* the queue and its worker under a caller that submits full batches, each of which
\* fails at the composition of its grid or is analyzed and stored, long enough for
\* the history to be pruned while jobs wait
NextPrune ==
    \/ EnqueueUpTo(MaxPruneJobs)
    \/ \E a \in worker :
          \/ \E ok \in BOOLEAN : CreateGridDone(a, ok)
          \/ GridAnalyzed(a, <<"ok", 250>>)
          \/ GridFound(a, TRUE)
          \/ GridInserted(a, TRUE)
          \/ AnalysisReplied(a)

SpecPrune == Init /\ [][NextPrune]_vars

\* the capture component over several runs, with further calls of
\* queueGridForAnalysis between the runs, some of them refused; each batch fails at
\* the composition of its grid or is analyzed and stored
NextIds ==
    \/ HandleStartCapture
    \/ HandleStopCapture
    \/ \E ok \in BOOLEAN : HashResetDone(ok)
    \/ \E out \in Hashes \cup {<<>>} : FrameChecked(out)
    \/ DriverWake
    \/ ~sessionActiveRef /\ EnqueueUpTo(MaxCaptureJobs)
    \/ \E a \in worker :
          \/ \E ok \in BOOLEAN : CreateGridDone(a, ok)
          \/ GridAnalyzed(a, <<"ok", 250>>)
          \/ GridFound(a, TRUE)
          \/ GridInserted(a, TRUE)
          \/ AnalysisReplied(a)

SpecIds == Init /\ [][NextIds]_vars

\* the check-image endpoint under a direct caller
NextFilter ==
    \/ \E out \in FilterHashes \cup {<<>>} : CheckImagePost(out)
    \/ CheckImageReset

SpecFilter == Init /\ [][NextFilter]_vars

\* the check-image endpoint under the requests of several capture sessions, all
\* requests logged in the order they were served
NextShared ==
    \/ \E s \in Sessions : \E out \in Hashes \cup {<<>>} : SessionCheck(s, out)
    \/ \E s \in Sessions : SessionReset(s)

SpecShared == Init /\ [][NextShared]_vars

\* ------------------------------------------------------------ library calls
\* the grid endpoint serving the Analyze-batch requests of several clients at once:
\* the awaits of one request interleave with those of the others
NextPosts ==
    \/ GridPostArrives
    \/ \E a \in worker :
          \/ \E out \in ScoreOutcomes : GridAnalyzed(a, out)
          \/ \E ok \in BOOLEAN : GridFound(a, ok)
          \/ \E ok \in BOOLEAN : GridInserted(a, ok)
          \/ GridPostReplied(a)

SpecPosts == Init /\ [][NextPosts]_vars

appVars == <<clientQueueVars, driverVars, lastHash, gridServerVars, today, frameServerVars,
             boundedVars, received>>

\* createGridDataUrl is called with a batch of frames
InitGrid ==
    /\ InitState({"grid"}, {"continuous"})
    /\ \E gridCanvas \in BOOLEAN : \E ctx \in BOOLEAN : \E n \in 0..MaxGridFrames :
       \E first \in FrameSizes : \E others \in FrameSizes :
           call = [fn |-> "createGridDataUrl",
                   args |-> <<gridCanvas, ctx, CapturedFrames(n, first, others)>>,
                   result |-> <<>>]

\* the call returns the grid
CreateGridReturn ==
    /\ call.fn = "createGridDataUrl"
    /\ call.result = <<>>
    /\ call' = [call EXCEPT
                   !.result = createGridDataUrl(call.args[1], call.args[2], call.args[3])]
    /\ UNCHANGED appVars

NextGrid == CreateGridReturn

SpecGrid == InitGrid /\ [][NextGrid]_vars

\* hammingDistance is called with two of the strings
InitHamming ==
    /\ InitState({"grid"}, {"continuous"})
    /\ \E h1 \in HammingInputs : \E h2 \in HammingInputs :
           call = [fn |-> "hammingDistance", args |-> <<h1, h2>>, result |-> <<>>]

\* the call returns or throws
HammingReturn ==
    /\ call.fn = "hammingDistance"
    /\ call.result = <<>>
    /\ call' = [call EXCEPT !.result = hammingDistanceCall(call.args[1], call.args[2])]
    /\ UNCHANGED appVars

NextHamming == HammingReturn

SpecHamming == InitHamming /\ [][NextHamming]_vars

\* computeHash is called on an image whose DCT sums are one of the matrices
InitHash ==
    /\ InitState({"grid"}, {"continuous"})
    /\ \E dct \in DctInputs :
           call = [fn |-> "computeHash", args |-> <<dct>>, result |-> <<>>]

\* the call returns the fingerprint
ComputeHashReturn ==
    /\ call.fn = "computeHash"
    /\ call.result = <<>>
    /\ call' = [call EXCEPT !.result = <<computeHash(call.args[1])>>]
    /\ UNCHANGED appVars

NextHash == ComputeHashReturn

SpecHash == InitHash /\ [][NextHash]_vars

\* both analyzers are about to turn the same parsed totalCO2Kg into a scoreChange
InitScoreChange ==
    /\ InitState({"grid"}, {"continuous"})
    /\ \E n \in CO2Numerators :
           call = [fn |-> "scoreChange", args |-> <<n>>, result |-> <<<<>>, <<>>>>]

\* JSON.parse of the analyzer's reply: the Number of the decimal literal
ParsedTotalCO2Kg == DecimalLiteral(call.args[1], CO2_DECIMALS)

\* analyzeGrid returns its scoreChange
AnalyzeGridReturn ==
    /\ call.fn = "scoreChange"
    /\ call.result[1] = <<>>
    /\ call' = [call EXCEPT !.result[1] = <<analyzeGridScoreChange(ParsedTotalCO2Kg)>>]
    /\ UNCHANGED appVars

\* analyzeFrames returns its scoreChange
AnalyzeFramesReturn ==
    /\ call.fn = "scoreChange"
    /\ call.result[2] = <<>>
    /\ call' = [call EXCEPT !.result[2] = <<analyzeFramesScoreChange(ParsedTotalCO2Kg)>>]
    /\ UNCHANGED appVars

NextScoreChange == AnalyzeGridReturn \/ AnalyzeFramesReturn

SpecScoreChange == InitScoreChange /\ [][NextScoreChange]_vars

\* ------------------------------------------------------------ observations
JobIds(q) == {q[i].id : i \in 1..Len(q)}

JobOf(q, id) == q[CHOOSE i \in 1..Len(q) : q[i].id = id]

\* the status of job id as the job list shows it
StatusOf(q, ctr, id) ==
    IF id \in JobIds(q) THEN JobOf(q, id).status
    ELSE IF id <= ctr THEN "pruned" ELSE "none"

Analyzing(q) == {i \in 1..Len(q) : q[i].status = "analyzing"}

RetiredIds == {retired[i][1] : i \in 1..Len(retired)}

\* a step that is one call of queueGridForAnalysis
EnqueueStep == lastEnqueue'.toggle # lastEnqueue.toggle

\* ------------------------------------------------------------ claims

\* C1: in every reachable state at most one job of the analysis queue is
\* "analyzing", whatever the interleaving of enqueue calls and drain calls, and a
\* call of processAnalysisQueue made while the worker is active changes no job.
C1_SingleActiveWorker ==
    /\ Cardinality(Analyzing(analysisQueueRef)) <= 1
    /\ [][/\ Cardinality(Analyzing(analysisQueueRef')) <= 1
          /\ (processingRef /\ DrainCall) => analysisQueueRef' = analysisQueueRef]_vars

\* C1 witness: a job is being analyzed, the worker is active and another job waits
C1_Witness ==
    /\ processingRef
    /\ Cardinality(Analyzing(analysisQueueRef)) = 1
    /\ \E i \in 1..Len(analysisQueueRef) : analysisQueueRef[i].status = "pending"

\* C2: the number of "pending" or "analyzing" jobs never exceeds MAX_PENDING_JOBS
C2_ActiveWithinCapacity == PendingCount(analysisQueueRef) <= MAX_PENDING_JOBS

\* C2 witness: the queue is at capacity and an enqueue attempt was just refused
C2_Witness ==
    /\ PendingCount(analysisQueueRef) = MAX_PENDING_JOBS
    /\ ~lastEnqueue.accepted

\* C3: every batch the continuous driver fills to 12 frames and submits is accepted
\* by queueGridForAnalysis: the driver's call never returns false
C3_DriverBatchAccepted == lastEnqueue.by = "driver" => lastEnqueue.accepted

\* C3 witness: the driver's latest batch was accepted as the third active job
C3_Witness ==
    /\ lastEnqueue.by = "driver" /\ lastEnqueue.accepted
    /\ PendingCount(analysisQueueRef) = MAX_PENDING_JOBS
    /\ analysisQueueRef[Len(analysisQueueRef)].frames = FullBatch

\* C4: queueGridForAnalysis returns false exactly when the count of pending plus
\* analyzing jobs is at capacity, and then changes nothing; otherwise it returns
\* true, takes the next id and appends exactly one job, pushed as "pending" (the
\* worker it then calls may already have moved a pending job to "analyzing")
C4_AdmissionControl ==
    [][EnqueueStep =>
        LET q  == analysisQueueRef
            q2 == analysisQueueRef'
        IN  /\ lastEnqueue'.accepted <=> PendingCount(q) < MAX_PENDING_JOBS
            /\ ~lastEnqueue'.accepted =>
                  /\ q2 = q
                  /\ jobIdCounterRef' = jobIdCounterRef
                  /\ worker' = worker
            /\ lastEnqueue'.accepted =>
                  /\ Len(q2) = Len(q) + 1
                  /\ jobIdCounterRef' = jobIdCounterRef + 1
                  /\ q2[Len(q2)].id = jobIdCounterRef'
                  /\ q2[Len(q2)].id \notin JobIds(q)
                  /\ q2[Len(q2)].status \in {"pending", "analyzing"}
                  /\ PendingCount(q2) = PendingCount(q) + 1
                  /\ \A i \in 1..Len(q) :
                        \/ q2[i] = q[i]
                        \/ /\ q[i].status = "pending"
                           /\ q2[i] = [q[i] EXCEPT !.status = "analyzing"]]_vars

\* C4 witness: three enqueues succeeded, none of the three jobs is terminal yet and
\* the fourth call was refused
C4_Witness ==
    /\ jobIdCounterRef = MAX_PENDING_JOBS
    /\ retired = <<>>
    /\ ~lastEnqueue.accepted

\* C5: jobs are started and retired in enqueue order: whenever a job is analyzing or
\* terminal, every job accepted before it (every smaller id) has been retired, and
\* the retirements happened in increasing id order
C5_FifoOrder ==
    /\ \A i \in 1..Len(analysisQueueRef) :
          analysisQueueRef[i].status # "pending" =>
              \A id \in 1..(analysisQueueRef[i].id - 1) : id \in RetiredIds
    /\ \A i \in 1..Len(retired) : retired[i][1] = i

\* C5 witness: the rebuilt job list holds a waiting job in front of two retired
\* ones, and a later job is being analyzed
C5_Witness ==
    /\ Len(retired) >= 2
    /\ Len(analysisQueueRef) >= 4
    /\ analysisQueueRef[1].status = "analyzing"
    /\ analysisQueueRef[2].status = "pending"
    /\ IsFinished(analysisQueueRef[3])

\* C7: a job's status only moves pending -> analyzing -> complete or failed; a
\* terminal job never changes status again (it can only leave the history)
StatusMove(from, to) ==
    \/ from = to
    \/ from = "none" /\ to \in {"pending", "analyzing"}
    \/ from = "pending" /\ to = "analyzing"
    \/ from = "analyzing" /\ to \in {"complete", "failed"}
    \/ from \in {"complete", "failed"} /\ to = "pruned"

C7_StatusMachine ==
    [][\A id \in 1..jobIdCounterRef' :
          StatusMove(StatusOf(analysisQueueRef, jobIdCounterRef, id),
                     StatusOf(analysisQueueRef', jobIdCounterRef', id))]_vars

\* C7 witness: one job ended complete, one failed, one is analyzing, one is pending
C7_Witness ==
    /\ \E i \in 1..Len(retired) : retired[i][2] = "complete"
    /\ \E i \in 1..Len(retired) : retired[i][2] = "failed"
    /\ \E i \in 1..Len(analysisQueueRef) : analysisQueueRef[i].status = "analyzing"
    /\ \E i \in 1..Len(analysisQueueRef) : analysisQueueRef[i].status = "pending"

\* C6: provided the worker's awaits resolve, every accepted job is eventually
\* retired as complete or failed, whether it was enqueued while the worker was busy
\* or was still pending or analyzing when the session was stopped
C6_EveryJobRetired ==
    \A id \in 1..MaxFairJobs : (jobIdCounterRef >= id) ~> (id \in RetiredIds)

\* C6 witness: the session was stopped and has ended while one job is analyzing and
\* another, enqueued while the worker was busy, is still pending
C6_Witness ==
    /\ stopRequestedRef /\ ~sessionActiveRef
    /\ \E i \in 1..Len(analysisQueueRef) : analysisQueueRef[i].status = "analyzing"
    /\ \E i \in 1..Len(analysisQueueRef) : analysisQueueRef[i].status = "pending"

\* ------------------------------------------------------------ retirement
\* the activation retired by this step, if any
RetiredNow(a) == a \in worker /\ Len(retired') = Len(retired) + 1
                              /\ retired'[Len(retired')][1] = a.job

EndStatus == retired'[Len(retired')][2]

\* the job carries an error message wherever the list still shows it
ErrorAttached(q, id) == id \in JobIds(q) => JobOf(q, id).error # ""

LoggedJobs == {okDeltas[i][1] : i \in 1..Len(okDeltas)}

FailsWithoutTrace(a) ==
    /\ EndStatus = "failed"
    /\ ErrorAttached(analysisQueueRef', a.job)
    /\ completedGrids' = completedGrids
    /\ GridScore' = GridScore /\ GridTotalBatches' = GridTotalBatches
    /\ a.job \notin LoggedJobs

ReportedScore == IF endpoint = "grid" THEN GridScore ELSE FrameScore

\* the endpoint stored a batch whose analysis succeeded: the client receives the
\* success response and retires that batch as complete
BatchStored ==
    \/ /\ endpoint = "grid"
       /\ \E a \in worker :
             /\ a.pc = "insert"
             /\ carbonLogs' = Append(carbonLogs, LogRecord(a))
             /\ \E b \in worker' : b.job = a.job /\ b.pc = "reply" /\ ResponseOk(b)
    \/ /\ endpoint = "frames"
       /\ Len(batchHistory') = Len(batchHistory) + 1

ScoreReset ==
    \/ endpoint = "grid" /\ okDeltas' = <<>> /\ LogsOf(carbonLogs', today) = <<>>
    \/ endpoint = "frames" /\ batchHistory' = <<>> /\ cumulativeScore' = 0

\* steps that retire a batch as failed, or are a call of queueGridForAnalysis
QuietStep ==
    \/ Len(retired') = Len(retired) + 1 /\ EndStatus = "failed"
    \/ EnqueueStep

\* an activation whose response has arrived is retired complete exactly when the
\* response is a success
ReplyDecides ==
    \A a \in worker : (a.pc = "reply" /\ RetiredNow(a)) =>
        (EndStatus = "complete" <=> ResponseOk(a))

\* C9 as stated: the reported score changes only with a batch that is retired as
\* complete, or on the explicit reset; failed retirements and enqueue calls, accepted
\* or rejected, leave it unchanged
C9_AsStated ==
    [][/\ ReportedScore' # ReportedScore => (BatchStored \/ ScoreReset)
       /\ QuietStep => ReportedScore' = ReportedScore
       /\ ReplyDecides]_vars

\* C9: the reported score changes only with a batch that is retired as complete, on
\* the explicit reset, or when the UTC date changes (the score is the sum over the
\* records of the current date); failed retirements and enqueue calls, accepted or
\* rejected, leave it unchanged
C9_ScoreChangesOnlyOnSuccess ==
    [][/\ ReportedScore' # ReportedScore =>
             (BatchStored \/ ScoreReset \/ today' # today)
       /\ QuietStep => ReportedScore' = ReportedScore
       /\ ReplyDecides]_vars

\* C9 witness: a batch was retired as complete and one as failed, an enqueue was
\* refused, and the date has changed since the stored batch, so the score is 0 again
C9_Witness ==
    /\ endpoint = "grid"
    /\ \E i \in 1..Len(retired) : retired[i][2] = "complete"
    /\ \E i \in 1..Len(retired) : retired[i][2] = "failed"
    /\ \E i \in 1..Len(okDeltas) : okDeltas[i][2] > 0 /\ okDeltas[i][3] < today
    /\ GridScore = 0

\* the deltas of the batches stored since the last reset, all or those of a date
DeltasSinceReset == [i \in 1..Len(okDeltas) |-> okDeltas[i][2]]

DeltasOfDate(date) ==
    LET kept == SelectSeq(okDeltas, LAMBDA d : d[3] = date)
    IN  [i \in 1..Len(kept) |-> kept[i][2]]

FrameDeltas == [i \in 1..Len(batchHistory) |-> batchHistory[i].scoreChange]

FrameScoreIsSum ==
    /\ FrameScore = Round2(SumSeq(FrameDeltas))
    /\ batchHistory # <<>> =>
          batchHistory[Len(batchHistory)].cumulativeScore = FrameScore

\* C10 as stated: the reported score is the sum of the deltas of all batches stored
\* since the last reset, rounded to two decimals
C10_AsStated ==
    IF endpoint = "grid"
    THEN GridScore = Round2(SumSeq(DeltasSinceReset))
    ELSE FrameScoreIsSum

\* C10: the reported score is the sum, rounded to two decimals, of the deltas of the
\* batches stored since the last reset; the grid endpoint counts those recorded on
\* the current UTC date only
C10_ScoreIsRoundedSum ==
    IF endpoint = "grid"
    THEN GridScore = Round2(SumSeq(DeltasOfDate(today)))
    ELSE FrameScoreIsSum

\* C10 witness: two batches with different deltas were stored on the current date
\* with a failed batch between them
C10_Witness ==
    /\ endpoint = "grid"
    /\ Len(okDeltas) = 2
    /\ okDeltas[1][1] = 1 /\ okDeltas[2][1] = 3
    /\ okDeltas[1][2] # okDeltas[2][2]
    /\ okDeltas[1][3] = today /\ okDeltas[2][3] = today
    /\ <<2, "failed">> \in {retired[j] : j \in 1..Len(retired)}
    /\ GridScore = okDeltas[1][2] + okDeltas[2][2]

\* ------------------------------------------------------------ batches of the driver
\* C11: every job in the analysis queue holds exactly MAX_FRAMES frames, the frames
\* accumulated for the current batch never exceed MAX_FRAMES, and the continuous
\* driver calls queueGridForAnalysis only with a batch of exactly MAX_FRAMES frames
C11_JobsHoldTwelveFrames ==
    /\ [](/\ \A i \in 1..Len(analysisQueueRef) :
               Len(analysisQueueRef[i].frames) = MAX_FRAMES
          /\ Len(driver.collectedFrames) <= MAX_FRAMES
          /\ driver.accepted = Len(driver.collectedFrames))
    /\ [][EnqueueStep => Len(driver.collectedFrames) = MAX_FRAMES]_vars

\* C11 witness: the driver has just queued a full batch while an earlier job, also
\* of 12 frames, is being analyzed
C11_Witness ==
    /\ driver.pc = "gridreset"
    /\ Len(driver.collectedFrames) = MAX_FRAMES
    /\ Len(analysisQueueRef) >= 2
    /\ analysisQueueRef[Len(analysisQueueRef)].frames = driver.collectedFrames
    /\ analysisQueueRef[Len(analysisQueueRef)].status = "pending"

\* C14: when the stop flag is observed while the current batch holds fewer than
\* MAX_FRAMES frames the session ends and the batch is dropped: no enqueue call is
\* made, no worker starts and the job list is unchanged
C14_PartialBatchDiscarded ==
    [][(stopRequestedRef /\ driver.pc = "sleep" /\ driver'.pc # "sleep"
           /\ Len(driver.collectedFrames) < MAX_FRAMES) =>
          /\ driver' = IdleDriver
          /\ ~sessionActiveRef'
          /\ analysisQueueRef' = analysisQueueRef
          /\ worker' = worker
          /\ jobIdCounterRef' = jobIdCounterRef
          /\ lastEnqueue' = lastEnqueue]_vars

\* C14 witness: a session ended on a stop with nothing queued although frames had
\* been accepted for the batch
C14_Witness ==
    /\ stopRequestedRef /\ ~sessionActiveRef
    /\ driver = IdleDriver
    /\ lastHash # NoHash
    /\ jobIdCounterRef = 0

\* ------------------------------------------------------------ claims: the bounded runs
\* the step on which a bounded run leaves its sampling loop
RunEnds == capturing /\ ~capturing'

\* an analysis request of a bounded component awaits its response
RequestInFlight == driver.pc = "analysis" \/ analyses > 0

C13_AsStated == Len(sent) <= 1

\* ------------------------------------------------------------ claims: one sampling loop
\* the step on which a sampling loop begins
LoopStarts == driver'.pc = "reset" /\ driver.pc # "reset"

\* C15: a sampling loop begins only when none exists and no session is active;
\* while one exists the session guard or the capturing state that hides the Start
\* control is set, so that a start request leaves the running session as it is
C15_StartWhileActiveIgnored ==
    /\ [](driver.pc # "idle" => (sessionActiveRef \/ capturing))
    /\ [][LoopStarts =>
            /\ driver.pc = "idle"
            /\ ~sessionActiveRef
            /\ ~capturing
            /\ ~capturingRef]_vars

C15_Witness ==
    /\ component = "bounded"
    /\ ENABLED BoundedStart
    /\ sessionActiveRef
    /\ driver.pc = "analysis"
    /\ Len(driver.collectedFrames) = MAX_FRAMES
    /\ lastHash # NoHash

\* ------------------------------------------------------------ claims: backpressure
\* the driver waits on a full queue
Blocked == driver.pc = "sleep" /\ driver.delay = 5000

\* captureOneFrame was called: a frame check is under way, or no frame was ready
Sampled == driver.pc = "check" \/ (driver.pc = "sleep" /\ driver.delay = 200)

\* C16: while the pending and analyzing jobs are at capacity the driver has no
\* frame check under way and any pause of it is the 5000 ms poll; a driver blocked
\* on a full queue samples again unless a stop is requested
C16_BlockedDriverResumes ==
    /\ [](QueueFull(analysisQueueRef) =>
            /\ driver.pc # "check"
            /\ driver.pc = "sleep" => Blocked)
    /\ [](Blocked => driver.accepted = 0)
    /\ Blocked ~> (Sampled \/ stopRequestedRef)

C16_Witness ==
    /\ Blocked
    /\ ~stopRequestedRef
    /\ PendingCount(analysisQueueRef) = MAX_PENDING_JOBS - 1
    /\ Len(retired) = 1
    /\ jobIdCounterRef = MAX_PENDING_JOBS

\* ------------------------------------------------------------ claims: the filter per batch
\* C17: in the continuous component the reference is null whenever a frame is
\* checked or awaited for an empty batch, at the start of a run and after every
\* queued batch, so that the first frame the filter sees for a batch is accepted
\* with distance null; the reference of a check is null or was accepted into the
\* batch being filled, and it changes only by a reset between batches or by an
\* accepted frame
C17_ReferenceResetPerBatch ==
    /\ []((driver.pc \in {"check", "sleep"} /\ driver.accepted = 0) =>
            /\ lastHash = NoHash
            /\ \A h \in Hashes :
                  /\ CheckImage(lastHash, h).shouldProcess
                  /\ CheckImage(lastHash, h).distance = <<>>)
    /\ [](driver.pc = "check" => (lastHash = NoHash <=> driver.accepted = 0))
    /\ [][lastHash' # lastHash =>
            \/ lastHash' = NoHash /\ driver.pc \in {"reset", "gridreset"}
            \/ driver.pc = "check" /\ driver'.accepted = driver.accepted + 1]_vars

C17_Witness ==
    /\ jobIdCounterRef = 2
    /\ Len(analysisQueueRef) = 2
    /\ driver.pc = "check"
    /\ driver.accepted = 0
    /\ lastHash = NoHash
    /\ sessionActiveRef

\* ------------------------------------------------------------ claims: the admission filter
\* the responses to frames whose fingerprint was computed
Answered(r) == SelectSeq(r, LAMBDA e : e.ok)

\* the response added by this step
NewResponse == received'[Len(received')]

\* a frame check was answered on this step
CheckStep == Len(received') = Len(received) + 1 /\ NewResponse.ok

\* the fingerprint of the last accepted frame since the reset, NoHash if none
LastAccepted(r) ==
    LET acc == SelectSeq(r, LAMBDA e : e.ok /\ e.shouldProcess)
    IN  IF acc = <<>> THEN NoHash ELSE acc[Len(acc)].hash

\* C18: the first frame checked after a reset, or before any frame was accepted,
\* is accepted with distance null and its fingerprint becomes the reference
C18_FirstFrameAccepted ==
    /\ [](Answered(received) # <<>> =>
            /\ Answered(received)[1].shouldProcess
            /\ Answered(received)[1].distance = <<>>)
    /\ [][(CheckStep /\ Answered(received) = <<>>) =>
            /\ NewResponse.shouldProcess
            /\ NewResponse.distance = <<>>
            /\ lastHash' = NewResponse.hash]_vars

C18_Witness ==
    /\ Len(received) = 2
    /\ ~received[1].ok
    /\ received[2].ok
    /\ received[2].shouldProcess
    /\ received[2].distance = <<>>
    /\ lastHash = received[2].hash
    /\ lastHash = BitsPrefix(19)

C21_FailedCheckSkipsFrame ==
    /\ [](/\ ~CheckImageResponse(lastHash, <<>>).ok
          /\ ~CheckImageResponse(lastHash, <<>>).shouldProcess
          /\ CheckImageResponse(lastHash, <<>>).lastHash = lastHash)
    /\ [][FrameChecked(<<>>) =>
            /\ lastHash' = lastHash
            /\ driver' = [driver EXCEPT !.pc = "sleep", !.delay = 1000]
            /\ sessionActiveRef' = sessionActiveRef]_vars
    /\ [][(driver.pc = "check" /\ driver'.accepted # driver.accepted) =>
            \E h \in Hashes :
                /\ CheckImageResponse(lastHash, h).ok
                /\ CheckImageResponse(lastHash, h).shouldProcess
                /\ lastHash' = h
                /\ driver'.accepted = driver.accepted + 1]_vars
    /\ [][(driver.pc = "sleep" /\ driver.delay = 1000 /\ driver' # driver
           /\ ~stopRequestedRef /\ driver.accepted < MAX_FRAMES) =>
            driver'.pc \in {"check", "sleep"}]_vars

\* the first check of a batch failed: with no reference any answered frame would
\* have been accepted
C21_Witness ==
    /\ sessionActiveRef
    /\ driver.pc = "sleep"
    /\ driver.delay = 1000
    /\ driver.accepted = 0
    /\ lastHash = NoHash
    /\ jobIdCounterRef = 1

\* ------------------------------------------------------------ claims: the job history
\* the terminal jobs of the job list
FinishedJobs(q) == SelectSeq(q, IsFinished)

\* the ids of the jobs retired after the i-th retirement
RetiredAfter(i) == {retired[k][1] : k \in (i + 1)..Len(retired)}

\* C22 as stated: a job that has just been retired is in the job list, with its
\* error message if it failed, and the terminal jobs kept are the most recently
\* retired ones: a retired job is missing only when five jobs retired after it
\* are present
C22_AsStated ==
    /\ [][\A a \in worker :
            RetiredNow(a) =>
                /\ a.job \in JobIds(analysisQueueRef')
                /\ EndStatus = "failed" => ErrorAttached(analysisQueueRef', a.job)]_vars
    /\ [](\A i \in 1..Len(retired) :
            retired[i][1] \notin JobIds(analysisQueueRef) =>
                /\ Cardinality(RetiredAfter(i)) >= HISTORY_KEEP
                /\ RetiredAfter(i) \subseteq JobIds(analysisQueueRef))

\* C23: the job list never holds more than 5 terminal jobs, before and after every
\* retirement, however many batches were processed
C23_AtMostFiveTerminalJobs ==
    /\ [](Len(FinishedJobs(analysisQueueRef)) <= HISTORY_KEEP)
    /\ [][\A a \in worker :
            RetiredNow(a) =>
                Len(FinishedJobs(analysisQueueRef')) =
                    IF Len(FinishedJobs(analysisQueueRef)) < HISTORY_KEEP
                    THEN Len(FinishedJobs(analysisQueueRef)) + 1
                    ELSE HISTORY_KEEP]_vars

C23_Witness ==
    /\ Len(retired) = HISTORY_KEEP + 1
    /\ Len(FinishedJobs(analysisQueueRef)) = HISTORY_KEEP
    /\ Len(analysisQueueRef) = HISTORY_KEEP
    /\ \E i \in 1..Len(retired) : retired[i][2] = "failed"

\* ------------------------------------------------------------ claims: the end of a run
\* the driver is inside runCaptureSession
InRun == driver.pc \notin {"idle", "crashed"}

\* the step on which runCaptureSession is left, by its last line or by an exception
RunLeft == InRun /\ ~InRun'

\* the step on which the rejected DELETE request throws out of runCaptureSession
ResetThrows == driver.pc \in {"reset", "gridreset"} /\ driver'.pc = "crashed"

C25_StopEndsRun ==
    /\ (stopRequestedRef /\ InRun) ~> ~InRun
    /\ [][(stopRequestedRef' /\ ~stopRequestedRef) => driver' = driver]_vars
    /\ [][(stopRequestedRef /\ driver.pc = "check" /\ driver' # driver) =>
            /\ driver'.pc = "sleep"
            /\ driver'.accepted \in {driver.accepted, driver.accepted + 1}
            /\ driver'.accepted = Len(driver'.collectedFrames)
            /\ sessionActiveRef']_vars
    /\ [][(driver'.pc = "check" /\ driver.pc # "check") => ~stopRequestedRef]_vars

\* a stop was requested while the driver waits on a full queue
C25_Witness ==
    /\ stopRequestedRef
    /\ sessionActiveRef
    /\ Blocked
    /\ QueueFull(analysisQueueRef)

\* ------------------------------------------------------------ claims: sessions of the filter
\* the reference a filter owned by session s alone would hold after the first i
\* requests of the log
RECURSIVE PrivateRef(_, _, _)
PrivateRef(r, s, i) ==
    IF i = 0 THEN NoHash
    ELSE LET e    == r[i]
             prev == PrivateRef(r, s, i - 1)
         IN  IF e.session # s THEN prev
             ELSE IF e.kind = "reset" THEN NoHash
             ELSE IF ~e.ok THEN prev
             ELSE CheckImage(prev, e.hash).lastHash

\* C26 as stated: the result of every frame check is the one a filter owned by its
\* session would give, from the frames and resets of that session only, whatever
\* other sessions request in between
C26_AsStated ==
    \A i \in 1..Len(received) :
        (received[i].kind = "check" /\ received[i].ok) =>
            LET own == CheckImage(PrivateRef(received, received[i].session, i - 1),
                                  received[i].hash)
            IN  /\ received[i].shouldProcess = own.shouldProcess
                /\ received[i].distance = own.distance

\* ------------------------------------------------------------ claims: resetting the filter
\* the last request served was a reset
JustReset == received # <<>> /\ received[Len(received)].kind = "reset"

\* the request served by this step
Served == received'[Len(received')]

\* C29: a reset is served in any state and leaves the reference unset, after one
\* reset as after several in a row, and the frame check served next is answered
\* as the first check of a fresh filter: accepted, distance null, its fingerprint
\* the new reference
C29_ResetIdempotent ==
    /\ [](Len(received) < MaxSharedOps => \A s \in Sessions : ENABLED SessionReset(s))
    /\ [](JustReset => lastHash = NoHash)
    /\ [][(JustReset /\ received' # received /\ Served.kind = "check" /\ Served.ok) =>
            /\ Served.shouldProcess
            /\ Served.distance = <<>>
            /\ lastHash' = Served.hash
            /\ Served.shouldProcess = CheckImage(NoHash, Served.hash).shouldProcess]_vars

\* two resets in a row after an accepted frame, then a frame with the fingerprint
\* of the old reference is accepted
C29_Witness ==
    /\ Len(received) = 4
    /\ received[1].kind = "check" /\ received[1].shouldProcess
    /\ received[2].kind = "reset"
    /\ received[3].kind = "reset"
    /\ received[4].kind = "check"
    /\ received[4].hash = received[1].hash
    /\ received[4].shouldProcess
    /\ received[4].distance = <<>>
    /\ lastHash = received[4].hash

\* ------------------------------------------------------------ claims: the score query
\* the number of batches the companion query reports
TotalBatches == IF endpoint = "grid" THEN GridTotalBatches ELSE FrameTotalBatches

\* the query after a reset, and the count over a failed batch or an enqueue call
ResetAndFailures ==
    /\ ScoreReset => (ReportedScore' = 0 /\ TotalBatches' = 0)
    /\ QuietStep => TotalBatches' = TotalBatches

\* the record stored by this step carries the current date (the date is read
\* before the records are queried and the new one is inserted)
StoredForToday ==
    endpoint = "grid" => carbonLogs'[Len(carbonLogs')].date = today

HammingReturned == call.fn = "hammingDistance" /\ call.result # <<>>

\* the positions at which two strings of equal length differ
DifferingPositions(h1, h2) == {i \in 1..Len(h1) : h1[i] # h2[i]}

\* C28: hammingDistance of two strings of equal length returns the number of
\* positions at which they differ: the same number for both orders of the
\* arguments, 0 for a string and itself, and between 0 and 64 for fingerprints of
\* 64 characters; strings of unequal length make it throw instead of returning a
\* number
C28_HammingDistance ==
    HammingReturned =>
        LET h1 == call.args[1]
            h2 == call.args[2]
        IN  /\ call.result = hammingDistanceCall(h2, h1)
            /\ Len(h1) # Len(h2) => call.result[1] = "error"
            /\ Len(h1) = Len(h2) =>
                   /\ call.result = <<"ok", Cardinality(DifferingPositions(h1, h2))>>
                   /\ h1 = h2 => call.result[2] = 0
                   /\ Len(h1) = HASH_BITS => call.result[2] \in 0..HASH_BITS

C28_Witness ==
    /\ HammingReturned
    /\ call.args = <<BitsPrefix(20), BitsAlternating(HASH_BITS)>>
    /\ call.result = <<"ok", 32>>

\* ------------------------------------------------------------ C30
BothReturned ==
    call.fn = "scoreChange" /\ call.result[1] # <<>> /\ call.result[2] # <<>>

\* C30: analyzeGrid and analyzeFrames return the same scoreChange for the same
\* totalCO2Kg
C30_AsStated == BothReturned => call.result[1] = call.result[2]

\* ------------------------------------------------------------ C31
\* C31: the frames of a job are the 12 frames accepted for its batch, in the order
\* of their acceptance (the driver hands over the frames it collected, first
\* accepted first), and the frame sequence of a job in the list never changes
\* afterwards, whatever the driver and the worker do
C31_JobFramesFixedInOrder ==
    /\ [](/\ \A i \in 1..Len(analysisQueueRef) : analysisQueueRef[i].frames = FullBatch
          /\ driver.collectedFrames = SubSeq(FullBatch, 1, driver.accepted))
    /\ [][(EnqueueStep /\ lastEnqueue'.accepted) =>
             analysisQueueRef'[Len(analysisQueueRef')].frames = driver.collectedFrames]_vars
    /\ [][\A id \in JobIds(analysisQueueRef) \cap JobIds(analysisQueueRef') :
             JobOf(analysisQueueRef', id).frames = JobOf(analysisQueueRef, id).frames]_vars

\* C31 witness: the driver has accepted five frames of the next batch while the
\* first job, holding its 12 frames in order, is being analyzed
C31_Witness ==
    /\ driver.accepted = 5
    /\ driver.collectedFrames = <<1, 2, 3, 4, 5>>
    /\ Len(analysisQueueRef) = 1
    /\ analysisQueueRef[1].status = "analyzing"
    /\ analysisQueueRef[1].frames = FullBatch

\* ------------------------------------------------------------ C32
HashReturned == call.fn = "computeHash" /\ call.result # <<>>

\* the n-th smallest of the values c[i], i in idx, counted with repetitions
NthSmallest(c, idx, n) ==
    CHOOSE x \in {c[i] : i \in idx} :
        /\ Cardinality({i \in idx : c[i] < x}) < n
        /\ Cardinality({i \in idx : c[i] <= x}) >= n

Sampling == capturing /\ driver.pc \in {"check", "sleep"}

\* the stop request as the loop test of the mounted component reads it
StopSeen == IF component = "bounded" THEN stopRequestedRef ELSE ~capturingRef

\* C33: a bounded run that entered its sampling loop eventually leaves it, also
\* when no frame is accepted or no frame is ever ready; the loop is left at its
\* test and not while a frame check is in flight; the test that finds 12 accepted
\* frames or a stop request ends the loop; the accepted count never exceeds 12
C33_BoundedRunEnds ==
    /\ Sampling ~> ~capturing
    /\ [](driver.accepted <= MAX_FRAMES /\ Len(driver.collectedFrames) <= MAX_FRAMES)
    /\ [][(Sampling /\ ~capturing') => driver.pc = "sleep"]_vars
    /\ [][(Sampling /\ driver.pc = "sleep" /\ driver' # driver
             /\ (driver.accepted >= MAX_FRAMES \/ StopSeen)) => ~capturing']_vars

\* C33 witness: a run ended by the timeout, with three frames accepted and no stop
\* requested, and its frames are being analyzed
C33_Witness ==
    /\ component = "bounded"
    /\ ~capturing /\ ~stopRequestedRef
    /\ driver.pc = "analysis"
    /\ driver.accepted = 3
    /\ sent = <<3>>


\* ------------------------------------------------------------ claims: the session guard
\* C34 as stated: whenever a capture run has ended, for any reason, the guard
\* against a second session is clear, so that the next start request begins a
\* run: no state has the guard set while no run is in progress
C34_AsStated == sessionActiveRef => InRun


\* ------------------------------------------------------------ claims: concurrent batches
\* the position of a request's record among the records of the collection
RecordIndex(job) == CHOOSE k \in 1..Len(okDeltas) : okDeltas[k][1] = job

\* the sum of the deltas recorded up to and including position k
RecordedUpTo(k) == SumSeq([j \in 1..k |-> okDeltas[j][2]])

\* C35 as stated: when Analyze-batch requests are served concurrently, the
\* cumulativeScore returned for each of them is the rounded sum of the deltas of all
\* batches recorded up to and including its own
C35_AsStated ==
    \A i \in 1..Len(received) :
        received[i][2][1] = "ok" =>
            received[i][2][2] = Round2(RecordedUpTo(RecordIndex(received[i][1])))


\* ------------------------------------------------------------ claims: pruning and active jobs
\* the positions of job id in the list, and the first of them
PositionsOf(q, id) == {i \in 1..Len(q) : q[i].id = id}

PositionOf(q, id) == CHOOSE i \in PositionsOf(q, id) : TRUE

PendingIds(q) == {q[i].id : i \in {k \in 1..Len(q) : q[k].status = "pending"}}

ActiveIds(q) == {q[i].id : i \in {k \in 1..Len(q) : IsActive(q[k])}}

\* C36: the pruning of the history never removes a pending or analyzing job and
\* never changes the relative order of the pending jobs: every accepted job that the
\* worker has not retired is in the list exactly once, pending or analyzing, no job
\* is ever in the list twice, a retirement keeps every other active job in the list,
\* and two jobs that are pending before any step are in the same order after it
C36_PruningKeepsActiveJobs ==
    /\ [](\A id \in 1..jobIdCounterRef :
            /\ Cardinality(PositionsOf(analysisQueueRef, id)) <= 1
            /\ id \notin RetiredIds =>
                  /\ Cardinality(PositionsOf(analysisQueueRef, id)) = 1
                  /\ IsActive(JobOf(analysisQueueRef, id)))
    /\ [][\A a \in worker :
            RetiredNow(a) =>
                ActiveIds(analysisQueueRef) \ {a.job} = ActiveIds(analysisQueueRef')]_vars
    /\ [][\A x, y \in PendingIds(analysisQueueRef) :
            /\ x \in ActiveIds(analysisQueueRef')
            /\ PositionOf(analysisQueueRef, x) < PositionOf(analysisQueueRef, y) =>
                  PositionOf(analysisQueueRef', x) < PositionOf(analysisQueueRef', y)]_vars

\* C36 witness: six jobs were retired, the fourth as complete; the pruning dropped a
\* finished job from the list while job 7 was active, and job 7 heads the list
C36_Witness ==
    /\ Len(retired) = HISTORY_KEEP + 1
    /\ retired[4] = <<4, "complete">>
    /\ lastEnqueue.accepted /\ jobIdCounterRef = 7
    /\ Len(analysisQueueRef) = HISTORY_KEEP + 1
    /\ analysisQueueRef[1].id = 7 /\ analysisQueueRef[1].status = "analyzing"
    /\ \E id \in RetiredIds : id \notin JobIds(analysisQueueRef)


\* ------------------------------------------------------------ claims: stop after the twelfth frame
\* the driver pauses after the twelfth accepted frame, a stop is requested, and the
\* batch is not queued yet
StoppedWithFullBatch ==
    /\ stopRequestedRef
    /\ driver.pc = "sleep"
    /\ Len(driver.collectedFrames) = MAX_FRAMES

\* C37: under the continuous policy, when the stop request arrives after the
\* twelfth frame was accepted and before the batch is queued, the next step of the
\* driver queues the full batch, accepted under the next id; the step after it ends
\* the run without a second enqueue; every queued batch, this one included, is
\* analyzed to a terminal status; and a run that ends from its pause without
\* queueing holds fewer than 12 frames
C37_FullBatchSurvivesStop ==
    /\ [][(StoppedWithFullBatch /\ driver' # driver) =>
            /\ EnqueueStep /\ lastEnqueue'.accepted /\ lastEnqueue'.by = "driver"
            /\ jobIdCounterRef' = jobIdCounterRef + 1
            /\ Cardinality(PositionsOf(analysisQueueRef', jobIdCounterRef')) = 1
            /\ JobOf(analysisQueueRef', jobIdCounterRef').frames = driver.collectedFrames
            /\ Len(analysisQueueRef') = Len(analysisQueueRef) + 1
            /\ driver'.pc = "gridreset"]_vars
    /\ [][(stopRequestedRef /\ driver.pc = "gridreset" /\ driver' # driver) =>
            /\ driver'.pc \in {"idle", "crashed"}
            /\ ~EnqueueStep
            /\ jobIdCounterRef' = jobIdCounterRef]_vars
    /\ [][(driver.pc = "sleep" /\ driver'.pc = "idle") =>
            /\ stopRequestedRef
            /\ Len(driver.collectedFrames) < MAX_FRAMES]_vars
    /\ StoppedWithFullBatch ~>
          (jobIdCounterRef >= 1 /\ RetiredIds = 1..jobIdCounterRef)

\* C37 witness: the first batch was analyzed, the second holds its 12 frames, and
\* the stop request arrived during the pause that follows the twelfth frame
C37_Witness ==
    /\ StoppedWithFullBatch
    /\ sessionActiveRef
    /\ driver.collectedFrames = FullBatch
    /\ jobIdCounterRef = 1
    /\ retired = <<<<1, "complete">>>>


\* ------------------------------------------------------------ claims: job ids
\* C38: job ids are unique and strictly increasing in enqueue order across all runs
\* of the component: no id is in the list twice; an accepted enqueue appends a job
\* whose id is the counter plus one, larger than every id in the list; a refused
\* enqueue leaves the counter and the list as they are; nothing else, the start of a
\* run included, changes the counter; so the ids accepted so far, in the list or
\* retired, are the integers from 1 to the counter
C38_JobIdsConsecutive ==
    /\ [](/\ \A id \in 1..jobIdCounterRef :
                Cardinality(PositionsOf(analysisQueueRef, id)) <= 1
          /\ JobIds(analysisQueueRef) \cup RetiredIds = 1..jobIdCounterRef)
    /\ [][EnqueueStep =>
            IF lastEnqueue'.accepted
            THEN /\ jobIdCounterRef' = jobIdCounterRef + 1
                 /\ analysisQueueRef'[Len(analysisQueueRef')].id = jobIdCounterRef'
                 /\ \A id \in JobIds(analysisQueueRef) \cup RetiredIds :
                        id < jobIdCounterRef'
            ELSE /\ jobIdCounterRef' = jobIdCounterRef
                 /\ analysisQueueRef' = analysisQueueRef]_vars
    /\ [][jobIdCounterRef' # jobIdCounterRef =>
            (EnqueueStep /\ lastEnqueue'.accepted)]_vars

\* C38 witness: job 1 was analyzed in an earlier run (the counter of analyzed grids
\* was reset by the start of this one), and the driver of this run has just queued
\* its batch under id 3
C38_Witness ==
    /\ Len(retired) >= 1
    /\ retired[1] = <<1, "complete">>
    /\ completedGrids = 0
    /\ sessionActiveRef
    /\ driver.pc = "gridreset"
    /\ lastEnqueue.by = "driver" /\ lastEnqueue.accepted
    /\ jobIdCounterRef = 3
    /\ analysisQueueRef[Len(analysisQueueRef)].id = 3


\* ------------------------------------------------------------ claims: the grid layout
GridReturned == call.fn = "createGridDataUrl" /\ call.result # <<>>

\* two cells share no point of positive area
Disjoint(c, d) ==
    \/ c.x + c.width <= d.x \/ d.x + d.width <= c.x
    \/ c.y + c.height <= d.y \/ d.y + d.height <= c.y

\* C39: the grid composer places frame i (counted from 0, below 12) in column
\* i mod 4 and row floor(i / 4) of a grid of 4 by 3 cells, every cell having the
\* width w and height h of the first frame, with the label "i+1 timestamp_i"; 12
\* frames occupy 12 pairwise disjoint cells inside an output of 4w by 3h whose
\* areas add up to the area of the output, so they tile it exactly
C39_GridLayout ==
    GridReturned /\ call.result[1] = "grid" =>
        LET frames == call.args[3]
            grid == call.result[2]
            n == Len(frames)
            w == frames[1].width
            h == frames[1].height
            shown == IF n < MAX_FRAMES THEN n ELSE MAX_FRAMES
        IN  /\ grid.width = 4 * w /\ grid.height = 3 * h
            /\ Len(grid.cells) = n
            /\ \A i \in 0..(shown - 1) :
                   LET cell == grid.cells[i + 1]
                   IN  /\ cell.image = i + 1
                       /\ cell.x = (i % 4) * w
                       /\ cell.y = (i \div 4) * h
                       /\ cell.width = w /\ cell.height = h
                       /\ cell.label = ToString(i + 1) \o " " \o frames[i + 1].timestamp
            /\ n = MAX_FRAMES =>
                   /\ \A i \in 1..n : \A j \in 1..n :
                          i # j => Disjoint(grid.cells[i], grid.cells[j])
                   /\ \A i \in 1..n :
                          /\ grid.cells[i].x >= 0 /\ grid.cells[i].y >= 0
                          /\ grid.cells[i].x + w <= grid.width
                          /\ grid.cells[i].y + h <= grid.height
                   /\ n * w * h = grid.width * grid.height

\* C39 witness: a grid of 12 frames, the first 640 by 480 and the others larger; the
\* last frame is drawn in the fourth column of the third row
C39_Witness ==
    /\ GridReturned /\ call.result[1] = "grid"
    /\ Len(call.args[3]) = MAX_FRAMES
    /\ call.args[3][1].width = 640 /\ call.args[3][2].width = 1280
    /\ call.result[2].width = 2560 /\ call.result[2].height = 1440
    /\ call.result[2].cells[12].x = 1920 /\ call.result[2].cells[12].y = 960
    /\ call.result[2].cells[12].label = "12 10:00:12"

====
